---- MODULE Spec2Model ----
(***************************************************************************)
(* Decision engine of the travel assistant: the fact merge store           *)
(* (core/redis_storage.py), the classification combiner                    *)
(* (core/query_classifier.py) and the information completeness scorer of   *)
(* the three handlers (handlers/*_handler.py).                             *)
(*                                                                         *)
(* A Python str is a sequence of one-character strings, so that split,     *)
(* strip, lower and the f-string that rebuilds "key: value" are computed   *)
(* as the code computes them.  A Python list is a sequence, a dict is a    *)
(* sequence of [key, value] records in insertion order.                    *)
(***************************************************************************)
EXTENDS Integers, Sequences, FiniteSets, TLC

VARIABLES
    store,        \* redis: scope -> the JSON list of fragments saved under its key
    nMerges,      \* number of _update_*_context calls since construction / reset
    lastScope,    \* scope of the latest _update_*_context call ("none" before any)
    lastF,        \* new_info of the latest _update_*_context call
    scopeAB,      \* a scope merged with two lists in the order first, second
    scopeBA,      \* the same scope merged with them in the order second, first
    swapped,      \* the two lists of the latest swapped merge (<<>> before any)
    called,       \* the classifier method that has run ("none": idle)
    geminiResponse,  \* what the generative model answered to its prompt
    geminiResult,    \* what classify_with_gemini returned to it
    patternResult,   \* what classify_with_patterns returned to it
    finalResult,     \* the verdict it returned
    handlerName,     \* the handler that builds the prompts ("none": not yet)
    sumBuiltin,      \* the builtin sum of the interpreter that runs it
    globalContext,   \* global_context of its latest analysis
    typeContext,     \* type_specific_context of its latest analysis
    queryInfo,       \* what _extract_info_from_query gave that analysis
    analysis,        \* what _analyze_information_completeness returned
    gateStep,        \* where the turn stands with its external data ("idle": between turns)
    turnVerdict,     \* the external-data part of the turn's classification_result
    turnQuery,       \* the turn's utterance
    turnContext,     \* global_context and type_specific_context of the turn
    cache,           \* the external cache: the payload saved for each kind
    externalData,    \* external_data handed to the handler
    relevance,       \* what the handler's gate returned
    promptKinds,     \* the kinds of payload written into the prompt
    strategyStep,    \* where a handler stands with its strategy ("idle": not selecting)
    strategyHandler, \* the handler that selects
    recentLength,    \* len(recent_conversation)
    infoAnalysis,    \* info_analysis handed to _determine_response_strategy
    externalRelevance,\* the gate's verdict handed to it
    responseStrategy, \* the strategy it returned
    turnStep,        \* the step of process_user_message that has run ("idle": none yet)
    turnCount,       \* the turns started
    classificationResult,\* classification_result of the turn
    history,         \* the conversation history: the kinds of the saved messages
    turnFailures,    \* the classes of failure the turn has met
    handlerContext,  \* global_context, type_specific_context, recent_conversation
    turnResponse,    \* response
    finalPrompt,     \* final_prompt: which prompt was built ("": None)
    returned,        \* what process_user_message returned last
    requestStep,     \* per overlapping turn: how far its update has got ("idle": not begun)
    requestScope,    \* per overlapping turn: the scope it updates
    requestNew,      \* per overlapping turn: new_info
    requestExisting, \* per overlapping turn: existing_context as it read it
    redis,           \* the keys of redis: <<prefix, name>> -> value
    shared,          \* name -> what the sessions together have written
    lastRead,        \* the latest read: session, name, value
    lastOp,          \* the latest operation of a session
    clock,           \* seconds since the storage was built
    cacheEntry,      \* what redis holds under the two external-data keys
    lastCacheOp,     \* the latest call of the cache and what it returned
    fetchCall        \* the last call of get_external_data_for_query_type

storeVars == <<store, nMerges, lastScope, lastF>>

orderVars == <<scopeAB, scopeBA, swapped>>

clsVars == <<called, geminiResponse, geminiResult, patternResult, finalResult>>

scoreVars ==
    <<handlerName, sumBuiltin, globalContext, typeContext, queryInfo, analysis>>

gateVars ==
    <<gateStep, turnVerdict, turnQuery, turnContext, cache, externalData, relevance, promptKinds>>

strategyVars ==
    <<strategyStep, strategyHandler, recentLength, infoAnalysis, externalRelevance, responseStrategy>>

turnVars ==
    <<turnStep, turnCount, classificationResult, history, turnFailures, handlerContext, turnResponse, finalPrompt, returned>>

requestVars == <<requestStep, requestScope, requestNew, requestExisting>>

sessionVars == <<redis, shared, lastRead, lastOp>>

cacheVars == <<clock, cacheEntry, lastCacheOp>>

fetchVars == <<fetchCall>>

vars ==
    <<storeVars, orderVars, clsVars, scoreVars,
      gateVars, strategyVars, turnVars, requestVars, sessionVars, cacheVars, fetchVars>>

-----------------------------------------------------------------------------
(* Bounds *)

\* _update_*_context calls explored between two resets
MaxMerges == 3

-----------------------------------------------------------------------------
(* Python str operations *)

Min(S) == CHOOSE x \in S : \A y \in S : x <= y

\* the characters str.strip() removes (the only one the fragments here use)
Whitespace == {" "}

RECURSIVE lstrip(_)
lstrip(s) ==
    IF s # <<>> /\ Head(s) \in Whitespace THEN lstrip(Tail(s)) ELSE s

RECURSIVE rstrip(_)
rstrip(s) ==
    IF s # <<>> /\ s[Len(s)] \in Whitespace
    THEN rstrip(SubSeq(s, 1, Len(s) - 1))
    ELSE s

\* str.strip()
strip(s) == rstrip(lstrip(s))

\* the letters str.lower() changes
UpperToLower ==
    [ A |-> "a", B |-> "b", C |-> "c", D |-> "d", E |-> "e", F |-> "f",
      G |-> "g", H |-> "h", I |-> "i", J |-> "j", K |-> "k", L |-> "l",
      M |-> "m", N |-> "n", O |-> "o", P |-> "p", Q |-> "q", R |-> "r",
      S |-> "s", T |-> "t", U |-> "u", V |-> "v", W |-> "w", X |-> "x",
      Y |-> "y", Z |-> "z" ]

UpperCase == DOMAIN UpperToLower

\* str.lower() on one character
lowerChar(c) == IF c \in UpperCase THEN UpperToLower[c] ELSE c

\* str.lower()
lower(s) == [i \in 1..Len(s) |-> lowerChar(s[i])]

\* ":" in item
HasColon(item) == \E i \in 1..Len(item) : item[i] = ":"

\* index of the first ":" of item (item.split(":", 1) cuts there)
ColonAt(item) == Min({i \in 1..Len(item) : item[i] = ":"})

\* key, value = item.split(":", 1); key = key.strip()
KeyOf(item) == strip(SubSeq(item, 1, ColonAt(item) - 1))

\* key, value = item.split(":", 1); value = value.strip()
ValueOf(item) == strip(SubSeq(item, ColonAt(item) + 1, Len(item)))

\* the positions where the separator ", " starts in s
SepStarts(s) == {i \in 1..(Len(s) - 1) : s[i] = "," /\ s[i + 1] = " "}

\* s.split(", ")
RECURSIVE SplitCommaSpace(_)
SplitCommaSpace(s) ==
    IF SepStarts(s) = {}
    THEN <<s>>
    ELSE LET i == Min(SepStarts(s))
         IN  <<SubSeq(s, 1, i - 1)>> \o SplitCommaSpace(SubSeq(s, i + 2, Len(s)))

\* x in list
InList(x, list) == \E i \in 1..Len(list) : list[i] = x

\* f"{key}: {value}"
Render(key, value) == key \o <<":", " ">> \o value

-----------------------------------------------------------------------------
(* Python dict, in insertion order *)

HasKey(d, k) == \E i \in 1..Len(d) : d[i].key = k

Get(d, k) == d[CHOOSE i \in 1..Len(d) : d[i].key = k].value

\* d[k] = v: a new key goes last, an old key keeps its place
Put(d, k, v) ==
    IF HasKey(d, k)
    THEN [i \in 1..Len(d) |-> IF d[i].key = k THEN [key |-> k, value |-> v] ELSE d[i]]
    ELSE Append(d, [key |-> k, value |-> v])

-----------------------------------------------------------------------------
(* GlobalContextStorage._merge_context_arrays *)

\* the loop over existing: existing_dict and remaining_items
RECURSIVE ParseExisting(_, _)
ParseExisting(existing, acc) ==
    IF existing = <<>> THEN acc
    ELSE LET item == Head(existing)
         IN  ParseExisting(Tail(existing),
                IF HasColon(item)
                THEN [acc EXCEPT !.dict = Put(acc.dict, KeyOf(item), ValueOf(item))]
                ELSE [acc EXCEPT !.rest = Append(acc.rest, item)])

\* a plausible slip: a known key takes the new value (latest wins)
MergeItemLatestWins(acc, item) ==
    IF item = <<>> \/ strip(item) = <<>> THEN acc
    ELSE IF HasColon(item)
         THEN [acc EXCEPT !.dict = Put(acc.dict, KeyOf(item), ValueOf(item))]
         ELSE IF InList(item, acc.rest) THEN acc
              ELSE [acc EXCEPT !.rest = Append(acc.rest, item)]

\* one pass of the loop over new
MergeItem(acc, item) ==
    IF item = <<>> \/ strip(item) = <<>> THEN acc
    ELSE IF HasColon(item)
         THEN LET key == KeyOf(item)
                  value == ValueOf(item)
              IN  IF HasKey(acc.dict, key)
                  THEN IF InList(value, SplitCommaSpace(Get(acc.dict, key)))
                       THEN acc
                       ELSE [acc EXCEPT !.dict =
                               Put(acc.dict, key,
                                   Get(acc.dict, key) \o <<",", " ">> \o value)]
                  ELSE [acc EXCEPT !.dict = Put(acc.dict, key, value)]
         ELSE IF InList(item, acc.rest) THEN acc
              ELSE [acc EXCEPT !.rest = Append(acc.rest, item)]

RECURSIVE MergeNew(_, _)
MergeNew(new, acc) ==
    IF new = <<>> THEN acc ELSE MergeNew(Tail(new), MergeItem(acc, Head(new)))

\* result = [f"{key}: {value}" ...] + remaining_items
PutBack(acc) ==
    [i \in 1..Len(acc.dict) |-> Render(acc.dict[i].key, acc.dict[i].value)]
        \o acc.rest

_merge_context_arrays(existing, new) ==
    IF new = <<>> THEN existing
    ELSE IF existing = <<>> THEN new
    ELSE PutBack(MergeNew(new, ParseExisting(existing, [dict |-> <<>>, rest |-> <<>>])))

-----------------------------------------------------------------------------
(* The store *)

valid_query_types ==
    {"destination_recommendations", "packing_suggestions", "local_attractions"}

Scopes == {"global_context"} \cup valid_query_types

\* fragments a classification can carry
Budget2000 == <<"b","u","d","g","e","t",":"," ","$","2","0","0","0">>
Budget3000 == <<"b","u","d","g","e","t",":"," ","$","3","0","0","0">>
Budget2000_3000 ==
    <<"b","u","d","g","e","t",":"," ","$","2","0","0","0",",",
      " ","$","3","0","0","0">>

\* the non-empty fact lists a classification hands to
\* extract_and_store_key_information (one list per scope and turn)
NewInfoLists ==
    { <<Budget2000>>,
      <<Budget3000>>,
      <<Budget3000, <<"x">>>>,
      << <<"a", ":", " ", "1">> >>,
      << <<"a", ":", " ", "1">>, <<"a", ":", " ", "2">> >>,
      << <<"A", ":", " ", "1">> >>,
      << <<"x">>, <<" ">> >> }

-----------------------------------------------------------------------------
(* QueryClassifier: the pattern matcher *)

\* confidences are kept in units of 1/3600: every score / total_patterns
\* (total_patterns is 16 or 18) and every tenth of one is then an integer
Unit == 144 * 25

\* self.type_patterns, in the order the dict is written
TypeOrder ==
    <<"destination_recommendations", "packing_suggestions", "local_attractions">>

type_patterns ==
    [ destination_recommendations |->
        [ keywords |->
            << <<"w","h","e","r","e"," ","t","o"," ","g","o">>,
               <<"d","e","s","t","i","n","a","t","i","o","n">>,
               <<"r","e","c","o","m","m","e","n","d">>,
               <<"v","i","s","i","t">>,
               <<"t","r","a","v","e","l"," ","t","o">>,
               <<"b","e","s","t"," ","p","l","a","c","e","s">>,
               <<"s","u","g","g","e","s","t","i","o","n","s">>,
               <<"t","r","i","p"," ","i","d","e","a","s">>,
               <<"v","a","c","a","t","i","o","n"," ","s","p","o","t","s">>,
               <<"c","i","t","i","e","s">>,
               <<"c","o","u","n","t","r","i","e","s">>,
               <<"p","l","a","c","e","s"," ","t","o"," ","v","i","s","i",
                 "t">>,
               <<"t","r","a","v","e","l"," ","r","e","c","o","m","m","e",
                 "n","d","a","t","i","o","n","s">> >>,
          phrases |->
            << <<"w","h","e","r","e"," ","s","h","o","u","l","d"," ","i",
                 " ","g","o">>,
               <<"r","e","c","o","m","m","e","n","d"," ","a"," ","d","e",
                 "s","t","i","n","a","t","i","o","n">>,
               <<"b","e","s","t"," ","p","l","a","c","e"," ","t","o"," ",
                 "v","i","s","i","t">>,
               <<"t","r","a","v","e","l"," ","s","u","g","g","e","s","t",
                 "i","o","n","s">>,
               <<"v","a","c","a","t","i","o","n"," ","i","d","e","a","s">> >> ],
      packing_suggestions |->
        [ keywords |->
            << <<"p","a","c","k">>,
               <<"p","a","c","k","i","n","g">>,
               <<"b","r","i","n","g">>,
               <<"l","u","g","g","a","g","e">>,
               <<"s","u","i","t","c","a","s","e">>,
               <<"c","l","o","t","h","e","s">>,
               <<"c","l","o","t","h","i","n","g">>,
               <<"w","h","a","t"," ","t","o"," ","w","e","a","r">>,
               <<"i","t","e","m","s">>,
               <<"e","s","s","e","n","t","i","a","l","s">>,
               <<"b","a","g">> >>,
          phrases |->
            << <<"w","h","a","t"," ","s","h","o","u","l","d"," ","i"," ",
                 "p","a","c","k">>,
               <<"w","h","a","t"," ","t","o"," ","b","r","i","n","g">>,
               <<"p","a","c","k","i","n","g"," ","l","i","s","t">>,
               <<"w","h","a","t"," ","c","l","o","t","h","e","s">>,
               <<"w","h","a","t"," ","i","t","e","m","s">> >> ],
      local_attractions |->
        [ keywords |->
            << <<"a","t","t","r","a","c","t","i","o","n","s">>,
               <<"a","c","t","i","v","i","t","i","e","s">>,
               <<"t","h","i","n","g","s"," ","t","o"," ","d","o">>,
               <<"s","i","g","h","t","s","e","e","i","n","g">>,
               <<"m","u","s","e","u","m","s">>,
               <<"r","e","s","t","a","u","r","a","n","t","s">>,
               <<"l","a","n","d","m","a","r","k","s">>,
               <<"t","o","u","r","s">>,
               <<"e","x","p","e","r","i","e","n","c","e","s">>,
               <<"e","n","t","e","r","t","a","i","n","m","e","n","t">>,
               <<"c","u","l","t","u","r","e">>,
               <<"l","o","c","a","l">>,
               <<"p","l","a","c","e","s"," ","t","o"," ","s","e","e">> >>,
          phrases |->
            << <<"t","h","i","n","g","s"," ","t","o"," ","d","o">>,
               <<"w","h","a","t"," ","t","o"," ","s","e","e">>,
               <<"a","t","t","r","a","c","t","i","o","n","s"," ","i","n">>,
               <<"a","c","t","i","v","i","t","i","e","s"," ","i","n">>,
               <<"p","l","a","c","e","s"," ","t","o"," ","v","i","s","i",
                 "t"," ","i","n">> >> ] ]

\* self.external_data_patterns
external_data_patterns ==
    [ weather_needed |->
        << <<"w","e","a","t","h","e","r">>,
           <<"t","e","m","p","e","r","a","t","u","r","e">>,
           <<"r","a","i","n">>,
           <<"s","n","o","w">>,
           <<"c","l","i","m","a","t","e">>,
           <<"s","e","a","s","o","n">>,
           <<"p","a","c","k">>,
           <<"p","a","c","k","i","n","g">>,
           <<"c","l","o","t","h","e","s">>,
           <<"c","l","o","t","h","i","n","g">>,
           <<"w","h","a","t"," ","t","o"," ","w","e","a","r">> >>,
      location_specific |->
        << <<"c","u","r","r","e","n","t">>,
           <<"n","o","w">>,
           <<"t","o","d","a","y">>,
           <<"t","h","i","s"," ","w","e","e","k">>,
           <<"r","e","a","l","-","t","i","m","e">>,
           <<"l","a","t","e","s","t">>,
           <<"a","c","t","i","v","i","t","i","e","s">>,
           <<"a","t","t","r","a","c","t","i","o","n","s">>,
           <<"t","h","i","n","g","s"," ","t","o"," ","d","o">>,
           <<"r","e","s","t","a","u","r","a","n","t","s">> >> ]

\* utterances
\* "what should I pack for my trip next March"
QueryPackMarch ==
    <<"w","h","a","t"," ","s","h","o","u","l","d"," ","I"," ","p","a","c",
      "k"," ","f","o","r"," ","m","y"," ","t","r","i","p"," ","n","e","x",
      "t"," ","M","a","r","c","h">>
\* "I'm leaving tomorrow, what should I pack"
QueryLeavingTomorrow ==
    <<"I","'","m"," ","l","e","a","v","i","n","g"," ","t","o","m","o","r",
      "r","o","w",","," ","w","h","a","t"," ","s","h","o","u","l","d"," ",
      "I"," ","p","a","c","k">>
\* "hello"
QueryHello ==
    <<"h","e","l","l","o">>
\* "things to do in Paris today"
QueryThingsToDo ==
    <<"t","h","i","n","g","s"," ","t","o"," ","d","o"," ","i","n"," ","P",
      "a","r","i","s"," ","t","o","d","a","y">>
\* "where should i go"
QueryWhereToGo ==
    <<"w","h","e","r","e"," ","s","h","o","u","l","d"," ","i"," ","g","o">>
\* "what should i pack, what to bring, packing a bag"
QueryPackingHalf ==
    <<"w","h","a","t"," ","s","h","o","u","l","d"," ","i"," ","p","a","c",
      "k",","," ","w","h","a","t"," ","t","o"," ","b","r","i","n","g",",",
      " ","p","a","c","k","i","n","g"," ","a"," ","b","a","g">>
\* "where should i go, recommend a destination, best place t ..."
QueryEveryDestinationPattern ==
    <<"w","h","e","r","e"," ","s","h","o","u","l","d"," ","i"," ","g","o",
      ","," ","r","e","c","o","m","m","e","n","d"," ","a"," ","d","e","s",
      "t","i","n","a","t","i","o","n",","," ","b","e","s","t"," ","p","l",
      "a","c","e"," ","t","o"," ","v","i","s","i","t",","," ","t","r","a",
      "v","e","l"," ","s","u","g","g","e","s","t","i","o","n","s",","," ",
      "v","a","c","a","t","i","o","n"," ","i","d","e","a","s",","," ","w",
      "h","e","r","e"," ","t","o"," ","g","o",","," ","t","r","a","v","e",
      "l"," ","t","o",","," ","b","e","s","t"," ","p","l","a","c","e","s",
      ","," ","t","r","i","p"," ","i","d","e","a","s",","," ","v","a","c",
      "a","t","i","o","n"," ","s","p","o","t","s",","," ","c","i","t","i",
      "e","s",","," ","c","o","u","n","t","r","i","e","s",","," ","p","l",
      "a","c","e","s"," ","t","o"," ","v","i","s","i","t",","," ","t","r",
      "a","v","e","l"," ","r","e","c","o","m","m","e","n","d","a","t","i",
      "o","n","s">>

Queries ==
    { QueryPackMarch,
      QueryLeavingTomorrow,
      QueryHello,
      QueryThingsToDo,
      QueryWhereToGo,
      QueryPackingHalf,
      QueryEveryDestinationPattern }

\* pattern in query_lower
Contains(text, pattern) ==
    \E i \in 1..(Len(text) - Len(pattern) + 1) :
        SubSeq(text, i, i + Len(pattern) - 1) = pattern

\* how many of the patterns occur in the text
CountIn(patterns, text) ==
    Cardinality({i \in 1..Len(patterns) : Contains(text, patterns[i])})

\* normalized_score of one query type: keywords count 1, phrases 2
NormalizedScore(query_type, query_lower) ==
    LET patterns == type_patterns[query_type]
        score == CountIn(patterns.keywords, query_lower)
                   + 2 * CountIn(patterns.phrases, query_lower)
        total_patterns == Len(patterns.keywords) + Len(patterns.phrases)
    IN  IF total_patterns > 0 THEN (score * Unit) \div total_patterns ELSE 0

\* max(type_scores.keys(), key=score): the first type with the highest score
BestType(query_lower) ==
    LET top == CHOOSE i \in 1..Len(TypeOrder) :
                 /\ \A j \in 1..Len(TypeOrder) :
                       NormalizedScore(TypeOrder[j], query_lower)
                         <= NormalizedScore(TypeOrder[i], query_lower)
                 /\ \A j \in 1..(i - 1) :
                       NormalizedScore(TypeOrder[j], query_lower)
                         < NormalizedScore(TypeOrder[i], query_lower)
    IN  TypeOrder[top]

\* external_data_type from the weather and location word counts
PatternExternalType(query_lower) ==
    LET weather_matches ==
            CountIn(external_data_patterns.weather_needed, query_lower)
        location_matches ==
            CountIn(external_data_patterns.location_specific, query_lower)
    IN  IF weather_matches > 0
        THEN IF location_matches > 0 THEN "both" ELSE "weather"
        ELSE IF location_matches > 0 THEN "attractions" ELSE "none"

classify_with_patterns(query) ==
    LET query_lower == lower(query)
        best_type == BestType(query_lower)
        best_score == NormalizedScore(best_type, query_lower)
        external_data_type == PatternExternalType(query_lower)
    IN  [ type |-> IF best_score = 0 THEN "destination_recommendations"
                   ELSE best_type,
          confidence |-> IF best_score = 0 THEN Unit \div 10 ELSE best_score,
          external_data_needed |-> external_data_type # "none",
          external_data_type |-> external_data_type ]

-----------------------------------------------------------------------------
(* QueryClassifier: the generative classifier's answer, validated *)

\* what gemini_client.generate_response and json.loads can give back: the call
\* raises, the text is no JSON, a required field is missing, or a dict with all
\* the fields (a fact field that is no list has is_list = FALSE)
NoFacts ==
    [ key_Global_information |-> [is_list |-> TRUE, items |-> <<>>],
      key_specific_destination_recommendations_information
          |-> [is_list |-> TRUE, items |-> <<>>],
      key_specific_packing_suggestions_information
          |-> [is_list |-> TRUE, items |-> <<>>],
      key_specific_local_attractions_information
          |-> [is_list |-> TRUE, items |-> <<>>] ]

LlmFacts ==
    { NoFacts,
      [NoFacts EXCEPT
          !.key_Global_information = [is_list |-> TRUE, items |-> <<Budget2000>>],
          !.key_specific_packing_suggestions_information =
              [is_list |-> TRUE, items |-> << <<"x">> >>]],
      [NoFacts EXCEPT
          !.key_Global_information = [is_list |-> FALSE, items |-> <<>>],
          !.key_specific_local_attractions_information =
              [is_list |-> TRUE, items |-> << <<"a", ":", " ", "1">> >>]] }

LlmFailures ==
    { [kind |-> k, type |-> "", external_data_needed |-> FALSE,
       external_data_type |-> "", facts |-> NoFacts] :
        k \in {"raises", "not_json", "missing_field"} }

LlmAnswers ==
    [ kind : {"ok"},
      type : valid_query_types \cup {"flights"},
      external_data_needed : BOOLEAN,
      external_data_type : {"weather", "attractions", "both", "none", "forecast"},
      facts : LlmFacts ]

LlmResponses == LlmFailures \cup LlmAnswers

\* no prompt has been answered
NoLlmResponse ==
    [ kind |-> "none", type |-> "", external_data_needed |-> FALSE,
      external_data_type |-> "", facts |-> NoFacts ]

valid_external_types == {"weather", "attractions", "both", "none"}

\* isinstance(result.get(field), list) or []
ListOrEmpty(field) == IF field.is_list THEN field.items ELSE <<>>

\* gemini_result of classify_query when classify_with_gemini raised: None
NoGeminiResult ==
    [ ok |-> FALSE, type |-> "", external_data_needed |-> FALSE,
      external_data_type |-> "",
      key_Global_information |-> <<>>,
      key_specific_destination_recommendations_information |-> <<>>,
      key_specific_packing_suggestions_information |-> <<>>,
      key_specific_local_attractions_information |-> <<>> ]

\* classify_with_gemini: the validated dict, or NoGeminiResult when it raises
classify_with_gemini(response) ==
    IF response.kind # "ok" THEN NoGeminiResult
    ELSE LET external_ok == response.external_data_type \in valid_external_types
         IN  [ ok |-> TRUE,
               type |-> IF response.type \in valid_query_types
                        THEN response.type
                        ELSE "destination_recommendations",
               external_data_needed |->
                   IF external_ok THEN response.external_data_needed ELSE FALSE,
               external_data_type |->
                   IF external_ok THEN response.external_data_type ELSE "none",
               key_Global_information |->
                   ListOrEmpty(response.facts.key_Global_information),
               key_specific_destination_recommendations_information |->
                   ListOrEmpty(response.facts.
                       key_specific_destination_recommendations_information),
               key_specific_packing_suggestions_information |->
                   ListOrEmpty(response.facts.
                       key_specific_packing_suggestions_information),
               key_specific_local_attractions_information |->
                   ListOrEmpty(response.facts.
                       key_specific_local_attractions_information) ]

-----------------------------------------------------------------------------
(* QueryClassifier: combine_classifications and classify_query *)

GEMINI_WEIGHT == (8 * Unit) \div 10

AGREEMENT_BONUS == (3 * Unit) \div 10

\* a plausible slip: the patterns are given the weight of the generative
\* classifier
PatternConfidenceAtGeminiWeight(pattern_result) ==
    (8 * pattern_result.confidence) \div 10

\* PATTERN_WEIGHT * pattern_result["confidence"], PATTERN_WEIGHT = 0.2
PatternConfidence(pattern_result) == (2 * pattern_result.confidence) \div 10

\* a plausible slip: the agreement bonus is left out
TopicVerdictNoBonus(gemini_result, pattern_result) ==
    IF gemini_result.type = pattern_result.type
    THEN [ type |-> gemini_result.type,
           confidence_score |-> GEMINI_WEIGHT + PatternConfidence(pattern_result),
           primary_source |-> "consensus" ]
    ELSE IF GEMINI_WEIGHT > PatternConfidence(pattern_result)
    THEN [ type |-> gemini_result.type,
           confidence_score |-> GEMINI_WEIGHT,
           primary_source |-> "llm" ]
    ELSE [ type |-> pattern_result.type,
           confidence_score |-> PatternConfidence(pattern_result),
           primary_source |-> "patterns" ]

\* a plausible slip: the comparison of the two confidences is turned round
TopicVerdictPatternsWin(gemini_result, pattern_result) ==
    IF gemini_result.type = pattern_result.type
    THEN [ type |-> gemini_result.type,
           confidence_score |->
               GEMINI_WEIGHT + PatternConfidence(pattern_result) + AGREEMENT_BONUS,
           primary_source |-> "consensus" ]
    ELSE IF GEMINI_WEIGHT < PatternConfidence(pattern_result)
    THEN [ type |-> gemini_result.type,
           confidence_score |-> GEMINI_WEIGHT,
           primary_source |-> "llm" ]
    ELSE [ type |-> pattern_result.type,
           confidence_score |-> PatternConfidence(pattern_result),
           primary_source |-> "patterns" ]

\* the three branches of combine_classifications that settle the type, the
\* confidence and the source
TopicVerdict(gemini_result, pattern_result) ==
    IF gemini_result.type = pattern_result.type
    THEN [ type |-> gemini_result.type,
           confidence_score |->
               GEMINI_WEIGHT + PatternConfidence(pattern_result) + AGREEMENT_BONUS,
           primary_source |-> "consensus" ]
    ELSE IF GEMINI_WEIGHT > PatternConfidence(pattern_result)
    THEN [ type |-> gemini_result.type,
           confidence_score |-> GEMINI_WEIGHT,
           primary_source |-> "llm" ]
    ELSE [ type |-> pattern_result.type,
           confidence_score |-> PatternConfidence(pattern_result),
           primary_source |-> "patterns" ]

\* a plausible slip: the external-data verdict is taken from the patterns
CombineExternalFromPatterns(gemini_result, pattern_result) ==
    LET verdict == TopicVerdict(gemini_result, pattern_result)
    IN  [ type |-> verdict.type,
          confidence_score |-> verdict.confidence_score,
          primary_source |-> verdict.primary_source,
          external_data_needed |-> pattern_result.external_data_needed,
          external_data_type |-> pattern_result.external_data_type,
          key_Global_information |-> gemini_result.key_Global_information,
          key_specific_destination_recommendations_information |->
              gemini_result.key_specific_destination_recommendations_information,
          key_specific_packing_suggestions_information |->
              gemini_result.key_specific_packing_suggestions_information,
          key_specific_local_attractions_information |->
              gemini_result.key_specific_local_attractions_information,
          fallback_used |-> FALSE ]

combine_classifications(gemini_result, pattern_result) ==
    LET verdict == TopicVerdict(gemini_result, pattern_result)
    IN  [ type |-> verdict.type,
          confidence_score |-> verdict.confidence_score,
          primary_source |-> verdict.primary_source,
          external_data_needed |-> gemini_result.external_data_needed,
          external_data_type |-> gemini_result.external_data_type,
          key_Global_information |-> gemini_result.key_Global_information,
          key_specific_destination_recommendations_information |->
              gemini_result.key_specific_destination_recommendations_information,
          key_specific_packing_suggestions_information |->
              gemini_result.key_specific_packing_suggestions_information,
          key_specific_local_attractions_information |->
              gemini_result.key_specific_local_attractions_information,
          fallback_used |-> FALSE ]

\* a plausible slip: the fallback verdict is not marked as one
PatternsFallbackUnmarked(pattern_result) ==
    [ type |-> pattern_result.type,
      confidence_score |-> pattern_result.confidence,
      primary_source |-> "patterns",
      external_data_needed |-> pattern_result.external_data_needed,
      external_data_type |-> pattern_result.external_data_type,
      key_Global_information |-> <<>>,
      key_specific_destination_recommendations_information |-> <<>>,
      key_specific_packing_suggestions_information |-> <<>>,
      key_specific_local_attractions_information |-> <<>>,
      fallback_used |-> FALSE ]

\* the else branch of classify_query: pattern matching only
PatternsFallback(pattern_result) ==
    [ type |-> pattern_result.type,
      confidence_score |-> pattern_result.confidence,
      primary_source |-> "patterns_fallback",
      external_data_needed |-> pattern_result.external_data_needed,
      external_data_type |-> pattern_result.external_data_type,
      key_Global_information |-> <<>>,
      key_specific_destination_recommendations_information |-> <<>>,
      key_specific_packing_suggestions_information |-> <<>>,
      key_specific_local_attractions_information |-> <<>>,
      fallback_used |-> TRUE ]

\* final_result before any call
NoFinalResult ==
    [ type |-> "", confidence_score |-> 0, primary_source |-> "",
      external_data_needed |-> FALSE, external_data_type |-> "",
      key_Global_information |-> <<>>,
      key_specific_destination_recommendations_information |-> <<>>,
      key_specific_packing_suggestions_information |-> <<>>,
      key_specific_local_attractions_information |-> <<>>,
      fallback_used |-> FALSE ]

NoPatternResult ==
    [ type |-> "", confidence |-> 0, external_data_needed |-> FALSE,
      external_data_type |-> "" ]

-----------------------------------------------------------------------------
(* Python floats of the completeness scorer *)

\* The scorer's floats are IEEE doubles close to a multiple of 1/240, between
\* 1/16 and 8.  Such a double is written [n, e]: its value is
\* n/240 + e * 2^-56 / 15, so e is its rounding error, counted exactly.

RECURSIVE Pow2(_)
Pow2(k) == IF k = 0 THEN 1 ELSE 2 * Pow2(k - 1)

\* 2^k mod 15
Pow2Mod15(k) == Pow2(k % 4)

\* j such that doubles are 2^j * 2^-56 apart at the real n/240 + e * 2^-56/15
UlpExponent(n, e) ==
    LET m == IF e < 0 THEN n - 1 ELSE n
    IN  IF m < 30 THEN 0
        ELSE IF m < 60 THEN 1
        ELSE IF m < 120 THEN 2
        ELSE IF m < 240 THEN 3
        ELSE IF m < 480 THEN 4
        ELSE IF m < 960 THEN 5
        ELSE 6

\* the double nearest the real n/240 + e * 2^-56/15 (ties go to the even one)
RoundToDouble(n, e) ==
    IF n = 0 /\ e = 0
    THEN [n |-> 0, e |-> 0]
    ELSE LET j == UlpExponent(n, e)
             ulp == 15 * Pow2(j)
             r == (n * Pow2(j) * Pow2Mod15(52 - j) + e) % ulp
             r2 == (n * Pow2(j + 1) * Pow2Mod15(51 - j) + e) % (2 * ulp)
             down == 2 * r < ulp \/ (2 * r = ulp /\ r2 = r)
         IN  [n |-> n, e |-> IF down THEN e - r ELSE e - r + ulp]

\* a / b of two ints, and the literal that reads a/b (0.3 is Double(3, 10))
Double(a, b) == RoundToDouble((240 * a) \div b, 0)

\* x + y
FloatAdd(x, y) == RoundToDouble(x.n + y.n, x.e + y.e)

\* x < y and x >= y
FloatLess(x, y) == x.n < y.n \/ (x.n = y.n /\ x.e < y.e)

FloatGeq(x, y) == ~FloatLess(x, y)

\* sum(...) of CPython up to 3.11: one rounded addition per item
RECURSIVE SequentialSum(_, _)
SequentialSum(xs, acc) ==
    IF xs = <<>> THEN acc ELSE SequentialSum(Tail(xs), FloatAdd(acc, Head(xs)))

RECURSIVE ExactSum(_, _)
ExactSum(xs, acc) ==
    IF xs = <<>>
    THEN acc
    ELSE ExactSum(Tail(xs), [n |-> acc.n + Head(xs).n, e |-> acc.e + Head(xs).e])

\* sum(...) of CPython from 3.12: compensated, the error terms are carried
\* exactly and added at the end, so the exact sum is rounded once
CompensatedSum(xs) ==
    LET s == ExactSum(xs, [n |-> 0, e |-> 0]) IN RoundToDouble(s.n, s.e)

\* the two builtin sums an interpreter can bring
SumBuiltins == {"sequential", "compensated"}

FloatSum(sum_builtin, xs) ==
    IF sum_builtin = "sequential"
    THEN SequentialSum(xs, [n |-> 0, e |-> 0])
    ELSE CompensatedSum(xs)

\* x / count for a count that is a power of two (there are 4 categories):
\* exact
FloatOver(x, count) == [n |-> x.n \div count, e |-> x.e \div count]

-----------------------------------------------------------------------------
(* The handlers: how much is known against how much is needed *)

Handlers == valid_query_types

\* self.critical_info_categories of the three handlers, in dict order
critical_info_categories ==
    [ local_attractions |->
        << [ category |-> "location",
             keywords |->
               << <<"d","e","s","t","i","n","a","t","i","o","n">>,
                  <<"r","e","g","i","o","n">>,
                  <<"c","o","n","t","i","n","e","n","t">> >> ],
           [ category |-> "time_constraints",
             keywords |->
               << <<"t","i","m","e","_","a","v","a","i","l","a","b","l",
                    "e">>,
                  <<"d","u","r","a","t","i","o","n">>,
                  <<"t","r","a","v","e","l","_","d","a","t","e","s">> >> ],
           [ category |-> "preferences",
             keywords |->
               << <<"i","n","t","e","r","e","s","t","s">>,
                  <<"a","c","t","i","v","i","t","i","e","s">>,
                  <<"b","u","d","g","e","t","_","p","e","r","_","a","c","t",
                    "i","v","i","t","y">> >> ],
           [ category |-> "accessibility",
             keywords |->
               << <<"m","o","b","i","l","i","t","y">>,
                  <<"a","c","c","e","s","s","i","b","i","l","i","t","y","_",
                    "n","e","e","d","s">>,
                  <<"g","r","o","u","p","_","s","i","z","e">> >> ] >>,
      packing_suggestions |->
        << [ category |-> "destination_weather",
             keywords |->
               << <<"d","e","s","t","i","n","a","t","i","o","n">>,
                  <<"t","r","a","v","e","l","_","d","a","t","e","s">>,
                  <<"d","u","r","a","t","i","o","n">> >> ],
           [ category |-> "activities_gear",
             keywords |->
               << <<"a","c","t","i","v","i","t","i","e","s">>,
                  <<"i","n","t","e","r","e","s","t","s">>,
                  <<"t","r","a","v","e","l","_","s","t","y","l","e">> >> ],
           [ category |-> "luggage_constraints",
             keywords |->
               << <<"l","u","g","g","a","g","e","_","t","y","p","e">>,
                  <<"g","r","o","u","p","_","s","i","z","e">>,
                  <<"c","o","n","s","t","r","a","i","n","t","s">> >> ],
           [ category |-> "special_needs",
             keywords |->
               << <<"s","p","e","c","i","a","l","_","n","e","e","d","s">>,
                  <<"a","c","c","e","s","s","i","b","i","l","i","t","y","_",
                    "n","e","e","d","s">>,
                  <<"l","a","u","n","d","r","y","_","a","v","a","i","l","a",
                    "b","i","l","i","t","y">> >> ] >>,
      destination_recommendations |->
        << [ category |-> "destination_preference",
             keywords |->
               << <<"d","e","s","t","i","n","a","t","i","o","n">>,
                  <<"r","e","g","i","o","n">>,
                  <<"c","o","n","t","i","n","e","n","t">>,
                  <<"c","l","i","m","a","t","e","_","p","r","e","f","e","r",
                    "e","n","c","e">> >> ],
           [ category |-> "trip_constraints",
             keywords |->
               << <<"b","u","d","g","e","t">>,
                  <<"d","u","r","a","t","i","o","n">>,
                  <<"t","r","a","v","e","l","_","d","a","t","e","s">>,
                  <<"g","r","o","u","p","_","s","i","z","e">> >> ],
           [ category |-> "traveler_profile",
             keywords |->
               << <<"i","n","t","e","r","e","s","t","s">>,
                  <<"t","r","a","v","e","l","_","s","t","y","l","e">>,
                  <<"c","o","n","s","t","r","a","i","n","t","s">> >> ],
           [ category |-> "specific_requirements",
             keywords |->
               << <<"a","c","t","i","v","i","t","i","e","s">>,
                  <<"a","c","c","e","s","s","i","b","i","l","i","t","y","_",
                    "n","e","e","d","s">>,
                  <<"v","i","s","a","_","r","e","q","u","i","r","e","m","e",
                    "n","t","s">> >> ] >> ]

\* the fragments a handler can find in global_context
GlobalFacts ==
    [ local_attractions |->
        << <<" ","D","e","s","t","i","n","a","t","i","o","n"," ",":"," ",
             "x">>,
           <<"r","e","g","i","o","n",":"," ","x">>,
           <<"c","o","n","t","i","n","e","n","t",":"," ","x">>,
           <<"d","u","r","a","t","i","o","n",":"," ","x">>,
           <<"t","r","a","v","e","l","_","d","a","t","e","s",":"," ","x">> >>,
      packing_suggestions |->
        << <<" ","D","e","s","t","i","n","a","t","i","o","n"," ",":"," ",
             "x">>,
           <<"t","r","a","v","e","l","_","d","a","t","e","s",":"," ","x">>,
           <<"d","u","r","a","t","i","o","n",":"," ","x">>,
           <<"i","n","t","e","r","e","s","t","s",":"," ","x">>,
           <<"g","r","o","u","p","_","s","i","z","e",":"," ","x">> >>,
      destination_recommendations |->
        << <<" ","R","e","g","i","o","n"," ",":"," ","x">>,
           <<"c","o","n","t","i","n","e","n","t",":"," ","x">>,
           <<"t","r","a","v","e","l","_","d","a","t","e","s",":"," ","x">>,
           <<"g","r","o","u","p","_","s","i","z","e",":"," ","x">>,
           <<"i","n","t","e","r","e","s","t","s",":"," ","x">> >> ]

\* the fragments a handler can find in type_specific_context
TypeFacts ==
    [ local_attractions |->
        << <<"a","c","t","i","v","i","t","i","e","s",":"," ","x">>,
           <<"b","u","d","g","e","t","_","p","e","r","_","a","c","t","i",
             "v","i","t","y",":"," ","x">>,
           <<"m","o","b","i","l","i","t","y",":"," ","x">>,
           <<"a","c","c","e","s","s","i","b","i","l","i","t","y","_","n",
             "e","e","d","s",":"," ","x">>,
           <<"g","r","o","u","p","_","s","i","z","e",":"," ","x">> >>,
      packing_suggestions |->
        << <<"t","r","a","v","e","l","_","s","t","y","l","e",":"," ","x">>,
           <<"c","o","n","s","t","r","a","i","n","t","s",":"," ","x">>,
           <<"a","c","c","e","s","s","i","b","i","l","i","t","y","_","n",
             "e","e","d","s",":"," ","x">>,
           <<"l","a","u","n","d","r","y","_","a","v","a","i","l","a","b",
             "i","l","i","t","y",":"," ","x">>,
           <<"s","p","e","c","i","a","l","_","n","e","e","d","s",":"," ",
             "x">> >>,
      destination_recommendations |->
        << <<"c","l","i","m","a","t","e","_","p","r","e","f","e","r","e",
             "n","c","e",":"," ","x">>,
           <<"t","r","a","v","e","l","_","s","t","y","l","e",":"," ","x">>,
           <<"c","o","n","s","t","r","a","i","n","t","s",":"," ","x">>,
           <<"a","c","t","i","v","i","t","i","e","s",":"," ","x">>,
           <<"a","c","c","e","s","s","i","b","i","l","i","t","y","_","n",
             "e","e","d","s",":"," ","x">> >> ]

\* keys _extract_info_from_query can set from the utterance
QueryKeys ==
    [ local_attractions |->
        << <<"t","i","m","e","_","a","v","a","i","l","a","b","l","e">>,
           <<"i","n","t","e","r","e","s","t","s">> >>,
      packing_suggestions |->
        << <<"a","c","t","i","v","i","t","i","e","s">>,
           <<"l","u","g","g","a","g","e","_","t","y","p","e">> >>,
      destination_recommendations |->
        << <<"b","u","d","g","e","t">>,
           <<"d","e","s","t","i","n","a","t","i","o","n">> >> ]
\* self.completeness_thresholds
completeness_thresholds ==
    [ minimal |-> Double(2, 10), partial |-> Double(5, 10),
      sufficient |-> Double(8, 10), complete |-> Double(10, 10) ]

\* the tags asked for when a category is a critical gap
missing_info_tags ==
    [ local_attractions |->
        << [category |-> "location", tag |-> "destination_or_current_location"],
           [category |-> "time_constraints", tag |-> "time_available_and_duration"],
           [category |-> "preferences", tag |-> "interests_and_activity_preferences"] >>,
      packing_suggestions |->
        << [category |-> "destination_weather", tag |-> "destination_and_travel_dates"],
           [category |-> "activities_gear", tag |-> "planned_activities_and_style"],
           [category |-> "luggage_constraints", tag |-> "luggage_preferences_and_constraints"] >>,
      destination_recommendations |->
        << [category |-> "destination_preference", tag |-> "destination_or_region_preference"],
           [category |-> "trip_constraints", tag |-> "budget_and_duration"],
           [category |-> "traveler_profile", tag |-> "interests_and_travel_style"] >> ]

\* available_info[key.strip().lower()] = value.strip() for the items with ":"
RECURSIVE ParseContext(_, _)
ParseContext(all_context, available_info) ==
    IF all_context = <<>>
    THEN available_info
    ELSE LET item == Head(all_context)
         IN  ParseContext(Tail(all_context),
                 IF HasColon(item)
                 THEN Put(available_info, lower(KeyOf(item)), ValueOf(item))
                 ELSE available_info)

\* available_info.update(query_info)
RECURSIVE DictUpdate(_, _)
DictUpdate(d, other) ==
    IF other = <<>>
    THEN d
    ELSE DictUpdate(Put(d, Head(other).key, Head(other).value), Tail(other))

\* a slip: the share of the keywords that are missing
CategoryScoreOfMissing(keywords, available_info) ==
    Double(Cardinality({i \in 1..Len(keywords) :
                            ~HasKey(available_info, keywords[i])}),
           Len(keywords))

\* category_score = len(found_items) / len(keywords)
CategoryScore(keywords, available_info) ==
    Double(Cardinality({i \in 1..Len(keywords) :
                            HasKey(available_info, keywords[i])}),
           Len(keywords))

\* the loop over self.critical_info_categories.items()
CategoryScores(categories, available_info) ==
    [ i \in 1..Len(categories) |->
        [ category |-> categories[i].category,
          score |-> CategoryScore(categories[i].keywords, available_info),
          found |-> SelectSeq(categories[i].keywords,
                              LAMBDA k : HasKey(available_info, k)),
          missing |-> SelectSeq(categories[i].keywords,
                                LAMBDA k : ~HasKey(available_info, k)) ] ]

\* overall_score = sum(scores["score"] ...) / len(category_scores)
OverallScore(sum_builtin, category_scores) ==
    FloatOver(FloatSum(sum_builtin,
                       [i \in 1..Len(category_scores) |-> category_scores[i].score]),
              Len(category_scores))

\* the if / elif chain over the thresholds
InformationQuality(overall_score) ==
    IF FloatGeq(overall_score, completeness_thresholds.complete) THEN "complete"
    ELSE IF FloatGeq(overall_score, completeness_thresholds.sufficient) THEN "sufficient"
    ELSE IF FloatGeq(overall_score, completeness_thresholds.partial) THEN "partial"
    ELSE "minimal"

\* missing_critical: the categories whose score is below 0.3
MissingCritical(category_scores) ==
    LET gaps == SelectSeq(category_scores,
                          LAMBDA c : FloatLess(c.score, Double(3, 10)))
    IN  [i \in 1..Len(gaps) |-> gaps[i].category]

\* analysis["missing_info"]: one append per tagged category in missing_critical
MissingInfo(tags, missing_critical) ==
    LET asked == SelectSeq(tags, LAMBDA t : InList(t.category, missing_critical))
    IN  [i \in 1..Len(asked) |-> asked[i].tag]

\* _analyze_information_completeness, with the dict _extract_info_from_query
\* gave for user_query.  Every item is a str, so nothing raises.
_analyze_information_completeness(handler, sum_builtin, query_info, global_context, type_specific_context) ==
    LET all_context == global_context \o type_specific_context
        available_info == DictUpdate(ParseContext(all_context, <<>>), query_info)
        category_scores ==
            CategoryScores(critical_info_categories[handler], available_info)
        missing_critical == MissingCritical(category_scores)
        overall_score == OverallScore(sum_builtin, category_scores)
    IN  [ available_info |-> available_info,
          missing_info |-> MissingInfo(missing_info_tags[handler], missing_critical),
          completeness_score |-> overall_score,
          category_scores |-> category_scores,
          critical_gaps |-> missing_critical,
          information_quality |-> InformationQuality(overall_score) ]

\* no handler has analysed anything yet
NoAnalysis ==
    [ available_info |-> <<>>, missing_info |-> <<>>,
      completeness_score |-> [n |-> 0, e |-> 0], category_scores |-> <<>>,
      critical_gaps |-> <<>>, information_quality |-> "" ]

-----------------------------------------------------------------------------
(* External data: the cache, the fetch, and the handlers' relevance gates *)

\* immediate_indicators of _is_trip_within_weather_relevance_window
immediate_indicators ==
    << <<"t","o","m","o","r","r","o","w">>,
       <<"t","o","d","a","y">>,
       <<"t","h","i","s"," ","w","e","e","k">>,
       <<"c","o","m","i","n","g"," ","w","e","e","k">>,
       <<"n","e","x","t"," ","f","e","w"," ","d","a","y","s">>,
       <<"l","e","a","v","i","n","g"," ","t","o","m","o","r","r","o","w">>,
       <<"d","e","p","a","r","t","i","n","g"," ","t","o","d","a","y">>,
       <<"t","r","a","v","e","l","i","n","g"," ","t","o","m","o","r","r",
         "o","w">> >>

\* weather_query_indicators of _assess_weather_data_relevance
weather_query_indicators ==
    << <<"c","u","r","r","e","n","t"," ","w","e","a","t","h","e","r">>,
       <<"t","o","d","a","y">>,
       <<"n","o","w">>,
       <<"r","i","g","h","t"," ","n","o","w">> >>

\* "travel_dates:"
TravelDatesColon ==
    <<"t","r","a","v","e","l","_","d","a","t","e","s",":">>

\* "travel_dates"
TravelDatesKey ==
    <<"t","r","a","v","e","l","_","d","a","t","e","s">>

\* "what is the current weather there"
QueryCurrentWeather ==
    <<"w","h","a","t"," ","i","s"," ","t","h","e"," ","c","u","r","r","e",
      "n","t"," ","w","e","a","t","h","e","r"," ","t","h","e","r","e">>

\* "travel_dates: tomorrow"
TravelDatesTomorrow ==
    <<"t","r","a","v","e","l","_","d","a","t","e","s",":"," ","t","o","m",
      "o","r","r","o","w">>

\* "travel_dates: next March"
TravelDatesNextMarch ==
    <<"t","r","a","v","e","l","_","d","a","t","e","s",":"," ","n","e","x",
      "t"," ","M","a","r","c","h">>

\* the utterances and the global contexts the gates are tried on
GateQueries == {QueryPackMarch, QueryLeavingTomorrow, QueryCurrentWeather}

\* global_context and type_specific_context
GateContexts ==
    { [global |-> <<>>, type_specific |-> <<>>],
      [global |-> <<TravelDatesTomorrow>>, type_specific |-> <<>>],
      [global |-> <<TravelDatesNextMarch>>, type_specific |-> <<>>],
      [global |-> <<>>, type_specific |-> <<TravelDatesTomorrow>>] }

\* an absent dict entry, or what storage.get_external_data returns on a miss
None == [present |-> FALSE, success |-> FALSE, temperature |-> FALSE,
         forecast_entries |-> 0, total_found |-> 0]

\* weather payloads: get_weather_for_destination's success dict with its
\* reading, the same with an empty forecast, and its failure dict
WeatherValid == [present |-> TRUE, success |-> TRUE, temperature |-> TRUE,
                 forecast_entries |-> 1, total_found |-> 0]

WeatherLimited == [present |-> TRUE, success |-> TRUE, temperature |-> TRUE,
                   forecast_entries |-> 0, total_found |-> 0]

FetchFailed == [present |-> TRUE, success |-> FALSE, temperature |-> FALSE,
                forecast_entries |-> 0, total_found |-> 0]

\* attractions payloads: get_attractions_for_destination's success dict with
\* and without attractions
AttractionsFound == [present |-> TRUE, success |-> TRUE, temperature |-> FALSE,
                     forecast_entries |-> 0, total_found |-> 1]

AttractionsEmpty == [present |-> TRUE, success |-> TRUE, temperature |-> FALSE,
                     forecast_entries |-> 0, total_found |-> 0]

\* what the cache can hold of a kind: only successful fetches are saved
CachedWeather == {None, WeatherValid, WeatherLimited}

CachedAttractions == {None, AttractionsFound, AttractionsEmpty}

\* what a fetch does on a cache miss: no destination is found so no call is
\* made, the call raises, or it returns a dict
WeatherFetches ==
    [outcome : {"no_destination", "raises"}, result : {None}]
        \cup [outcome : {"returns"}, result : {WeatherValid, WeatherLimited, FetchFailed}]

AttractionsFetches ==
    [outcome : {"no_destination"}, result : {None}]
        \cup [outcome : {"returns"},
              result : {AttractionsFound, AttractionsEmpty, FetchFailed}]

\* the external-data part of a classification_result
ExternalVerdicts ==
    [ type : valid_query_types, external_data_needed : BOOLEAN,
      external_data_type : valid_external_types ]

\* a plausible slip: the API first, the cache only when the fetch gave nothing
FetchKindCacheLast(cached, fetch) ==
    IF fetch.outcome = "no_destination"
    THEN [raised |-> FALSE, called |-> FALSE, data |-> cached, saved |-> cached]
    ELSE IF fetch.outcome = "raises"
    THEN [raised |-> TRUE, called |-> TRUE, data |-> None, saved |-> cached]
    ELSE IF fetch.result.success
    THEN [raised |-> FALSE, called |-> TRUE, data |-> fetch.result,
          saved |-> fetch.result]
    ELSE [raised |-> FALSE, called |-> TRUE, data |-> cached, saved |-> cached]

\* one kind of get_external_data_for_query_type: the cache first, the API on
\* a miss with a destination; a successful fetch is saved and handed on.
\* called: whether the API was called
FetchKind(cached, fetch) ==
    IF cached.present
    THEN [raised |-> FALSE, called |-> FALSE, data |-> cached, saved |-> cached]
    ELSE IF fetch.outcome = "no_destination"
    THEN [raised |-> FALSE, called |-> FALSE, data |-> None, saved |-> cached]
    ELSE IF fetch.outcome = "raises"
    THEN [raised |-> TRUE, called |-> TRUE, data |-> None, saved |-> cached]
    ELSE IF fetch.result.success
    THEN [raised |-> FALSE, called |-> TRUE, data |-> fetch.result,
          saved |-> fetch.result]
    ELSE [raised |-> FALSE, called |-> TRUE, data |-> None, saved |-> cached]

\* a slip: both kinds are looked up and fetched whatever the classification
\* asked for
GetExternalDataUnrequested(classification_result, cached, weather_fetch, attractions_fetch) ==
    LET w == FetchKind(cached.weather, weather_fetch)
        a == IF ~w.raised
             THEN FetchKind(cached.attractions, attractions_fetch)
             ELSE [raised |-> FALSE, called |-> FALSE, data |-> None,
                   saved |-> cached.attractions]
    IN  [ external_data |-> [weather |-> w.data, attractions |-> a.data],
          cache |-> [weather |-> w.saved, attractions |-> a.saved],
          fetched |-> {k \in {"weather"} : w.called}
                         \cup {k \in {"attractions"} : a.called},
          raised |-> w.raised \/ a.raised ]

\* get_external_data_for_query_type: external_data and the cache afterwards
\* (an exception ends the fetching and keeps what was fetched so far)
get_external_data_for_query_type(classification_result, cached, weather_fetch, attractions_fetch) ==
    LET wanted == classification_result.external_data_needed
        kind == classification_result.external_data_type
        w == IF wanted /\ kind \in {"weather", "both"}
             THEN FetchKind(cached.weather, weather_fetch)
             ELSE [raised |-> FALSE, called |-> FALSE, data |-> None,
                   saved |-> cached.weather]
        a == IF wanted /\ kind \in {"attractions", "both"} /\ ~w.raised
             THEN FetchKind(cached.attractions, attractions_fetch)
             ELSE [raised |-> FALSE, called |-> FALSE, data |-> None,
                   saved |-> cached.attractions]
    IN  [ external_data |-> [weather |-> w.data, attractions |-> a.data],
          cache |-> [weather |-> w.saved, attractions |-> a.saved],
          fetched |-> {k \in {"weather"} : w.called}
                         \cup {k \in {"attractions"} : a.called},
          raised |-> w.raised \/ a.raised ]

\* any(indicator in text for indicator in indicators)
AnyIn(indicators, text) ==
    \E i \in 1..Len(indicators) : Contains(text, indicators[i])

\* PackingHandler._is_trip_within_weather_relevance_window
_is_trip_within_weather_relevance_window(available_info, user_query, global_context) ==
    \/ AnyIn(immediate_indicators, lower(user_query))
    \/ \E i \in 1..Len(global_context) :
          /\ Contains(lower(global_context[i]), TravelDatesColon)
          /\ AnyIn(immediate_indicators, lower(ValueOf(global_context[i])))
    \/ /\ HasKey(available_info, TravelDatesKey)
       /\ AnyIn(immediate_indicators, lower(Get(available_info, TravelDatesKey)))

\* the verdict a gate starts from
NoRelevance ==
    [ weather_relevant |-> FALSE, attractions_relevant |-> FALSE,
      use_weather |-> FALSE, use_attractions |-> FALSE,
      weather_reason |-> "", attractions_reason |-> "",
      temporal_relevance |-> "unknown", data_freshness |-> "unknown" ]

\* "weather" in external_data and external_data["weather"].get("success")
HasData(payload) == payload.present /\ payload.success

\* current_temp != 'N/A' and forecast_entries > 0
ValidReading(payload) == payload.temperature /\ payload.forecast_entries > 0

\* PackingHandler._assess_weather_data_relevance
_assess_weather_data_relevance(external_data, global_context, user_query, info_analysis) ==
    IF ~HasData(external_data.weather)
    THEN [NoRelevance EXCEPT !.weather_reason = "No external weather data available"]
    ELSE LET freshness == IF ValidReading(external_data.weather)
                          THEN "current" ELSE "limited"
         IN  IF _is_trip_within_weather_relevance_window(
                    info_analysis.available_info, user_query, global_context)
             THEN [NoRelevance EXCEPT
                     !.temporal_relevance = "near_term",
                     !.weather_relevant = TRUE, !.use_weather = TRUE,
                     !.weather_reason =
                         IF freshness = "current"
                         THEN "Trip is within 5 days - current weather data is relevant"
                         ELSE "Trip is within 5 days - current weather data is relevant (limited data available)",
                     !.data_freshness = freshness]
             ELSE IF AnyIn(weather_query_indicators, lower(user_query))
             THEN [NoRelevance EXCEPT
                     !.temporal_relevance = "current_query",
                     !.weather_relevant = TRUE, !.use_weather = TRUE,
                     !.weather_reason =
                         IF freshness = "current"
                         THEN "User explicitly asking about current weather"
                         ELSE "User explicitly asking about current weather (limited data available)",
                     !.data_freshness = freshness]
             ELSE [NoRelevance EXCEPT
                     !.temporal_relevance = "future_trip",
                     !.weather_reason = "Trip appears to be in future - use seasonal knowledge instead of current weather"]

\* AttractionsHandler._assess_external_data_relevance
_assess_external_data_relevance(external_data, classification_result) ==
    IF ~classification_result.external_data_needed
    THEN [NoRelevance EXCEPT
            !.weather_reason = "Classifier determined no external data needed",
            !.attractions_reason = "Classifier determined no external data needed"]
    ELSE LET kind == classification_result.external_data_type
             weather_ok == /\ kind \in {"weather", "both"}
                           /\ HasData(external_data.weather)
                           /\ ValidReading(external_data.weather)
             attractions_ok == /\ kind \in {"attractions", "both"}
                               /\ HasData(external_data.attractions)
                               /\ external_data.attractions.total_found > 0
         IN  [NoRelevance EXCEPT
                !.weather_relevant = weather_ok, !.use_weather = weather_ok,
                !.attractions_relevant = attractions_ok,
                !.use_attractions = attractions_ok,
                !.weather_reason =
                    IF kind \notin {"weather", "both"} THEN ""
                    ELSE IF weather_ok
                    THEN "Classifier requested weather data - available and valid"
                    ELSE IF HasData(external_data.weather)
                    THEN "Classifier requested weather data but quality is limited"
                    ELSE "Classifier requested weather data but none available",
                !.attractions_reason =
                    IF kind \notin {"attractions", "both"} THEN ""
                    ELSE IF attractions_ok
                    THEN "Classifier requested attractions data - 1 attractions available"
                    ELSE IF HasData(external_data.attractions)
                    THEN "Classifier requested attractions data but none found"
                    ELSE "Classifier requested attractions data but none available"]

\* the kinds whose payload _build_strategic_prompt writes into the prompt
PromptKinds(data_relevance, external_data) ==
    {k \in {"weather"} : data_relevance.use_weather /\ external_data.weather.present}
        \cup {k \in {"attractions"} :
                 data_relevance.use_attractions /\ external_data.attractions.present}

\* ConversationManager._build_fallback_prompt: list(external_data.keys())
FallbackPromptKinds(external_data) ==
    {k \in {"weather", "attractions"} : external_data[k].present}

\* no turn is under way
NoExternalVerdict ==
    [ type |-> "", external_data_needed |-> FALSE, external_data_type |-> "" ]

-----------------------------------------------------------------------------
(* The relevance gate of the destination handler *)

\* near_term_indicators of DestinationHandler._is_near_term_date
near_term_indicators ==
    << <<"t","h","i","s"," ","w","e","e","k">>,
       <<"c","o","m","i","n","g"," ","w","e","e","k">>,
       <<"c","o","m","i","n","g"," ","d","a","y","s">>,
       <<"t","o","m","o","r","r","o","w">>,
       <<"t","h","i","s"," ","w","e","e","k","e","n","d">> >>

\* DestinationHandler._is_near_term_date
_is_near_term_date(date_item) == AnyIn(near_term_indicators, lower(date_item))

\* the words of weather_relevant_indicators that are looked for in the query
weather_relevant_words ==
    << <<"w","e","a","t","h","e","r">>,
       <<"t","e","m","p","e","r","a","t","u","r","e">>,
       <<"c","l","i","m","a","t","e">>,
       <<"s","e","a","s","o","n">> >>

\* "destination: Paris"
DestinationParis ==
    <<"d","e","s","t","i","n","a","t","i","o","n",":"," ","P","a","r","i","s">>

\* has_destination: an item that starts with "destination:" or whose key is
\* "destination"
HasDestination(global_context) ==
    \E i \in 1..Len(global_context) :
        /\ HasColon(global_context[i])
        /\ lower(KeyOf(global_context[i])) =
              <<"d","e","s","t","i","n","a","t","i","o","n">>

\* attractions_query_indicators: three phrases, and "see" with "what"
attractions_query_phrases ==
    << <<"t","h","i","n","g","s"," ","t","o"," ","d","o">>,
       <<"a","c","t","i","v","i","t","i","e","s">>,
       <<"a","t","t","r","a","c","t","i","o","n","s">> >>

AsksForActivities(user_query) ==
    \/ AnyIn(attractions_query_phrases, lower(user_query))
    \/ /\ Contains(lower(user_query), <<"s","e","e">>)
       /\ Contains(lower(user_query), <<"w","h","a","t">>)

\* DestinationHandler._assess_external_data_relevance
DestinationRelevance(external_data, global_context, user_query) ==
    LET has_weather == HasData(external_data.weather)
        has_attractions == HasData(external_data.attractions)
        weather_ok ==
            /\ has_weather
            /\ \/ AnyIn(weather_relevant_words, lower(user_query))
               \/ \E i \in 1..Len(global_context) :
                     /\ Contains(global_context[i], TravelDatesColon)
                     /\ _is_near_term_date(global_context[i])
        attractions_ok == has_attractions /\ HasDestination(global_context)
    IN  [NoRelevance EXCEPT
            !.weather_relevant = weather_ok, !.use_weather = weather_ok,
            !.attractions_relevant = attractions_ok,
            !.use_attractions = attractions_ok,
            !.weather_reason =
                IF ~has_weather THEN ""
                ELSE IF weather_ok
                THEN "User asked about weather or trip is near-term"
                ELSE "Weather not relevant - no weather question and not near-term trip",
            !.attractions_reason =
                IF ~has_attractions THEN ""
                ELSE IF ~HasDestination(global_context)
                THEN "No established destination - attractions not relevant yet"
                ELSE IF AsksForActivities(user_query)
                THEN "Destination known and user asking about activities"
                ELSE "Destination known - attractions can inform recommendation"]

\* the inputs the two gates on attractions are applied to
AssessedQueries == GateQueries \cup {QueryThingsToDo}

AssessedContexts == {<<>>, <<DestinationParis>>, <<TravelDatesTomorrow>>}

AssessedData ==
    [ weather : {None, WeatherValid},
      attractions : {None, AttractionsFound, AttractionsEmpty, FetchFailed} ]

-----------------------------------------------------------------------------
(* The response strategy of the handlers *)

\* len(recent_conversation): process_user_message hands on history[-6:]
MaxRecent == 6

\* the strategy dict _determine_response_strategy starts from
DefaultStrategy ==
    [ type |-> "question_focused", approach |-> "", length_target |-> "concise",
      questioning_strategy |-> "", recommendation_depth |-> "minimal" ]

\* the "avoid question loops" adjustment: a long conversation turns
\* question_focused into hybrid
Decisive(chosen, conversation_length) ==
    IF conversation_length > 4 /\ chosen.type = "question_focused"
    THEN [chosen EXCEPT
            !.type = "hybrid",
            !.approach = "Move conversation forward with recommendations and minimal questions"]
    ELSE chosen

\* the enhancement when data is used: strategy["approach"] += ... and
\* strategy["recommendation_depth"] += ... for the types of enhanced
Enhanced(chosen, has_data, enhanced) ==
    IF has_data /\ chosen.type \in DOMAIN enhanced
    THEN [chosen EXCEPT
            !.approach = enhanced[chosen.type].approach,
            !.recommendation_depth = enhanced[chosen.type].recommendation_depth]
    ELSE chosen

\* PackingHandler._determine_response_strategy
PackingStrategyOf(info_analysis, weather_relevance, conversation_length) ==
    LET quality == info_analysis.information_quality
        completeness == info_analysis.completeness_score
        has_weather_data == weather_relevance.use_weather
        chosen ==
            IF quality = "minimal" \/ FloatLess(completeness, Double(3, 10))
            THEN [ type |-> "question_focused",
                   approach |-> "Ask 2-3 targeted questions to gather essential packing information",
                   length_target |-> "concise",
                   questioning_strategy |-> "Focus on destination, activities, and luggage type",
                   recommendation_depth |-> "none" ]
            ELSE IF quality = "partial" \/ FloatLess(completeness, Double(6, 10))
            THEN [ type |-> IF has_weather_data THEN "hybrid_with_weather" ELSE "hybrid",
                   approach |->
                       IF has_weather_data
                       THEN "Provide weather-informed packing advice while gathering missing details"
                       ELSE "Provide general packing recommendations while gathering missing details",
                   length_target |-> "moderate",
                   questioning_strategy |-> "Ask for 1-2 specific details while giving helpful suggestions",
                   recommendation_depth |->
                       IF has_weather_data THEN "weather_based" ELSE "general" ]
            ELSE IF quality = "sufficient" \/ FloatLess(completeness, Double(8, 10))
            THEN [ type |-> "recommendation_focused",
                   approach |-> "Provide solid packing recommendations with clear reasoning",
                   length_target |-> "comprehensive",
                   questioning_strategy |-> "Optional clarification questions only",
                   recommendation_depth |-> "detailed" ]
            ELSE [ type |-> "detailed_packing_list",
                   approach |-> "Provide comprehensive, categorized packing list with specific insights",
                   length_target |-> "comprehensive",
                   questioning_strategy |-> "No questions needed",
                   recommendation_depth |-> "comprehensive" ]
    IN  Enhanced(Decisive(chosen, conversation_length), has_weather_data,
            [ recommendation_focused |->
                [ approach |-> "Provide solid packing recommendations with clear reasoning using current weather data",
                  recommendation_depth |-> "detailed_with_weather" ],
              detailed_packing_list |->
                [ approach |-> "Provide comprehensive, categorized packing list with specific insights using current weather data",
                  recommendation_depth |-> "comprehensive_with_weather" ] ])

\* AttractionsHandler._determine_response_strategy
AttractionsStrategyOf(info_analysis, external_relevance, conversation_length) ==
    LET quality == info_analysis.information_quality
        completeness == info_analysis.completeness_score
        has_attractions_data == external_relevance.use_attractions
        chosen ==
            IF quality = "minimal" \/ FloatLess(completeness, Double(3, 10))
            THEN [ type |-> "hybrid",
                   approach |-> "Always provide 2-3 general attraction recommendations and ask clarifying questions, even with minimal info.",
                   length_target |-> "concise",
                   questioning_strategy |-> "Ask 2-3 targeted questions to gather essential information, but always give recommendations first.",
                   recommendation_depth |-> "general" ]
            ELSE IF quality = "partial" \/ FloatLess(completeness, Double(6, 10))
            THEN [ type |-> IF has_attractions_data THEN "hybrid_with_data" ELSE "hybrid",
                   approach |->
                       IF has_attractions_data
                       THEN "Provide current attractions while gathering missing details"
                       ELSE "Provide general recommendations while gathering missing details",
                   length_target |-> "moderate",
                   questioning_strategy |-> "Ask for 1-2 specific details while giving helpful suggestions",
                   recommendation_depth |->
                       IF has_attractions_data
                       THEN "general_with_current_data" ELSE "general" ]
            ELSE IF quality = "sufficient" \/ FloatLess(completeness, Double(8, 10))
            THEN [ type |-> "recommendation_focused",
                   approach |-> "Provide solid attractions recommendations with clear reasoning",
                   length_target |-> "comprehensive",
                   questioning_strategy |-> "Optional clarification questions only",
                   recommendation_depth |-> "detailed" ]
            ELSE [ type |-> "detailed_planning",
                   approach |-> "Provide comprehensive attractions recommendations with detailed insights",
                   length_target |-> "comprehensive",
                   questioning_strategy |-> "No questions needed",
                   recommendation_depth |-> "comprehensive" ]
    IN  Enhanced(Decisive(chosen, conversation_length), has_attractions_data,
            [ recommendation_focused |->
                [ approach |-> "Provide solid attractions recommendations with clear reasoning using current attractions data",
                  recommendation_depth |-> "detailed_with_current_data" ],
              detailed_planning |->
                [ approach |-> "Provide comprehensive attractions recommendations with detailed insights using current attractions data",
                  recommendation_depth |-> "comprehensive_with_current_data" ] ])

\* what the gates can have returned: the packing gate has no attractions part
PackingRelevances ==
    {[NoRelevance EXCEPT !.weather_relevant = w, !.use_weather = w] : w \in BOOLEAN}

AttractionsRelevances ==
    {[NoRelevance EXCEPT !.weather_relevant = w, !.use_weather = w,
                         !.attractions_relevant = a, !.use_attractions = a] :
        w \in BOOLEAN, a \in BOOLEAN}

\* a context that holds the first count fragments of pool
FirstOf(pool, count) == SubSeq(pool, 1, count)

\* query_info with the first count keys of pool set
QueryInfoOf(pool, count) == [i \in 1..count |-> [key |-> pool[i], value |-> <<"?">>]]

-----------------------------------------------------------------------------
(* ConversationManager.process_user_message: one turn, with its failures *)

\* the turns of a conversation that are followed
MaxTurns == 2

\* fragments the classifier extracts in these turns
FactA1 == <<"a", ":", " ", "1">>

FactB2 == <<"b", ":", " ", "2">>

\* a classification_result, as far as the turn reads it
Classification(type, needed, kind, global, destination, packing, attractions, source, fallback) ==
    [ type |-> type, external_data_needed |-> needed, external_data_type |-> kind,
      key_Global_information |-> global,
      key_specific_destination_recommendations_information |-> destination,
      key_specific_packing_suggestions_information |-> packing,
      key_specific_local_attractions_information |-> attractions,
      confidence_score |-> 0, primary_source |-> source, fallback_used |-> fallback ]

\* the dict process_user_message makes up when classification raised
FallbackClassification ==
    [Classification("destination_recommendations", FALSE, "none",
                    <<>>, <<>>, <<>>, <<>>, "fallback", TRUE)
        EXCEPT !.confidence_score = Unit \div 10]

\* classification_result before step 1
NoClassification ==
    Classification("", FALSE, "", <<>>, <<>>, <<>>, <<>>, "", FALSE)

\* what classify_query returns in these turns: verdicts of the primary with
\* their facts, and the pattern verdict after a primary failure (no facts)
ClassifierReturns ==
    { [Classification("packing_suggestions", TRUE, "weather",
                      <<FactA1>>, <<>>, <<Budget2000>>, <<>>, "consensus", FALSE)
          EXCEPT !.confidence_score = Unit],
      [Classification("local_attractions", TRUE, "both",
                      <<FactB2>>, <<>>, <<>>, <<FactA1>>, "llm", FALSE)
          EXCEPT !.confidence_score = (4 * Unit) \div 5],
      [Classification("destination_recommendations", FALSE, "none",
                      <<Budget3000>>, <<FactB2>>, <<>>, <<>>, "llm", FALSE)
          EXCEPT !.confidence_score = (4 * Unit) \div 5],
      [Classification("packing_suggestions", TRUE, "weather",
                      <<>>, <<>>, <<>>, <<>>, "patterns_fallback", TRUE)
          EXCEPT !.confidence_score = Unit \div 2] }

\* step 1: the history read or classify_query may raise
ClassifierOutcomes ==
    [raises : {TRUE}, result : {NoClassification}]
        \cup [raises : {FALSE}, result : ClassifierReturns]

\* step 1 of process_user_message
Step1Classify(outcome) ==
    IF outcome.raises THEN FallbackClassification ELSE outcome.result

\* redis faults during a step: the scopes whose get raises, the scopes whose
\* set raises, and whether the commands on the conversation history raise
NoFaults == [get |-> {}, set |-> {}, history |-> FALSE]

StoreFaults ==
    {NoFaults, [NoFaults EXCEPT !.history = TRUE]}
        \cup {[NoFaults EXCEPT !.get = {sc}] : sc \in Scopes}
        \cup {[NoFaults EXCEPT !.set = {"global_context"}]}
        \cup {[get |-> Scopes, set |-> Scopes, history |-> TRUE]}

\* _get_global_context / _get_type_specific_context: [] when the get raises
GetContext(contents, scope, faults) ==
    IF scope \in faults.get THEN <<>> ELSE contents[scope]

\* _update_global_context / _update_type_specific_context on the redis
\* contents: read, merge, set; a set that raises leaves the contents
UpdateContext(state, scope, new_info, faults) ==
    IF state.raised \/ new_info = <<>>
    THEN state
    ELSE IF scope \in faults.set
    THEN [state EXCEPT !.raised = TRUE]
    ELSE [state EXCEPT !.contents[scope] =
              _merge_context_arrays(GetContext(state.contents, scope, faults),
                                    new_info)]

\* a step 3 that leaves the store as it was
StoreNothing(contents, classification_result, faults) == contents

\* extract_and_store_key_information: the four updates in their order, the
\* first exception ends them and is swallowed
extract_and_store_key_information(contents, classification_result, faults) ==
    LET s0 == [contents |-> contents, raised |-> FALSE]
        s1 == UpdateContext(s0, "global_context",
                  classification_result.key_Global_information, faults)
        s2 == UpdateContext(s1, "destination_recommendations",
                  classification_result.key_specific_destination_recommendations_information,
                  faults)
        s3 == UpdateContext(s2, "packing_suggestions",
                  classification_result.key_specific_packing_suggestions_information,
                  faults)
        s4 == UpdateContext(s3, "local_attractions",
                  classification_result.key_specific_local_attractions_information,
                  faults)
    IN  s4.contents

\* save_user_query / save_assistant_answer: set and lpush, or raise
SaveMessage(messages, kind, faults) ==
    IF faults.history THEN messages ELSE Append(messages, kind)

\* a plausible slip: the recent conversation is read before the query of the
\* turn is saved
RecentBeforeThisTurn(messages) ==
    LET before == SubSeq(messages, 1, Len(messages) - 1)
    IN  IF Len(before) > MaxRecent
        THEN SubSeq(before, Len(before) - MaxRecent + 1, Len(before))
        ELSE before

\* get_conversation_history()[-6:]
Recent(messages) ==
    IF Len(messages) > MaxRecent
    THEN SubSeq(messages, Len(messages) - MaxRecent + 1, Len(messages))
    ELSE messages

\* step 4: get_complete_context_for_query_type and the recent conversation;
\* the history read raising empties all three
Step4Context(contents, messages, query_type, faults) ==
    IF faults.history
    THEN [global |-> <<>>, type_specific |-> <<>>, recent |-> <<>>]
    ELSE [ global |-> GetContext(contents, "global_context", faults),
           type_specific |-> GetContext(contents, query_type, faults),
           recent |-> Recent(messages) ]

\* texts the model's reply can have: none, blank, an answer
LlmTexts == { <<>>, <<" ">>, <<"O", "k", ".">> }

\* GeminiClient.generate_response: the stripped text, its own apology for an
\* empty text, its own message when the call raised
GeminiApology ==
    "I apologize, but I couldn't generate a response right now. Please try again."

GeminiDifficulties ==
    "I'm experiencing technical difficulties. Please try again later."

generate_response(reply) ==
    IF reply.raises THEN [said |-> GeminiDifficulties, text |-> <<>>]
    ELSE IF reply.text = <<>> THEN [said |-> GeminiApology, text |-> <<>>]
    ELSE [said |-> "", text |-> strip(reply.text)]

LlmReplies ==
    [raises : {TRUE}, text : {<<>>}] \cup [raises : {FALSE}, text : LlmTexts]

\* route_to_handler: the handler's prompt, the fallback prompt when the
\* handler raised, or an exception out of the fallback prompt itself
RouteOutcomes == {"handler_prompt", "handler_raises", "fallback_raises"}

\* what process_user_message says itself
ManagerApology ==
    "I apologize, but I couldn't generate a proper response. Please try rephrasing your question."

ManagerDifficulties ==
    "I'm experiencing technical difficulties generating a response. Please try again."

NoResponse == [said |-> "", text |-> <<>>]

\* the truth value of a response
Truthy(response) == response.said # "" \/ response.text # <<>>

\* a slip: step 5 without its except clause
Step5Uncaught(query_type, route, reply) ==
    IF route # "handler_prompt"
    THEN [raised |-> TRUE, final_prompt |-> "", response |-> NoResponse]
    ELSE [ raised |-> FALSE, final_prompt |-> "handler",
           response |-> generate_response(reply) ]

\* step 5 of process_user_message: route_to_handler, generate_response, the
\* check for an empty response, and the except clause
Step5Respond(query_type, route, reply) ==
    IF route = "fallback_raises"
    THEN [ raised |-> FALSE, final_prompt |-> "",
           response |-> [said |-> ManagerDifficulties, text |-> <<>>] ]
    ELSE LET response == generate_response(reply)
         IN  [ raised |-> FALSE,
               final_prompt |->
                   IF route = "handler_raises"
                         \/ query_type = "destination_recommendations"
                   THEN "fallback" ELSE "handler",
               response |->
                   IF ~Truthy(response) \/ (response.said = "" /\ strip(response.text) = <<>>)
                   THEN [said |-> ManagerApology, text |-> <<>>]
                   ELSE response ]

\* the dict process_user_message returns
NoTurnResult ==
    [ classification_result |-> NoClassification, response |-> NoResponse,
      final_prompt |-> "", handler_used |-> "" ]

\* the turns that overlap
MaxRequests == 2

Requests == 1..MaxRequests

\* the fact lists the overlapping turns merge
RequestFacts == {<<FactA1>>, <<FactB2>>, <<Budget2000>>}

-----------------------------------------------------------------------------
(* The redis keys of the sessions *)

\* conversation sessions served by the process (the storage object is made
\* once, under st.cache_resource)
Sessions == {"session_1", "session_2"}

\* a slip: a key prefix of the session's own
SessionKeyOfItsOwn(s) == s

\* self.session_key, whatever session the turn belongs to
session_key(s) == "travel_assistant_session"

\* the names that follow the prefix in the keys
Names ==
    Scopes \cup {"conversation_order", "weather_external_data",
                 "attractions_external_data"}

\* what a read of a key that is not there gives
Missing(name) ==
    IF name \in {"weather_external_data", "attractions_external_data"}
    THEN None ELSE <<>>

\* what the sessions write
SessionScopes == {"global_context", "packing_suggestions"}

SessionFacts == {<<FactA1>>}

Fetched ==
    [ weather_external_data |-> WeatherValid,
      attractions_external_data |-> AttractionsFound ]

\* the keys redis can hold
RedisKeys == ({"travel_assistant_session"} \cup Sessions) \X Names

-----------------------------------------------------------------------------
(* The external cache and the clock *)

\* ttl_seconds of save_external_data
ttl_seconds == 3600

\* the seconds that pass in one step of the clock, and the steps it takes
TickSeconds == 1800

MaxTicks == 4

\* valid_types of save_external_data
valid_types == {"weather_external_data", "attractions_external_data"}

\* the data types save_external_data is called with
DataTypes == valid_types \cup {"forecast_external_data"}

\* a key that was never set
NoEntry ==
    [ present |-> FALSE, data |-> None, timestamp |-> 0, expires_in |-> 0,
      set_at |-> 0, ttl |-> 0 ]

\* redis_client.setex(storage_key, ttl_seconds, json.dumps(cached_data))
setex(data, now) ==
    [ present |-> TRUE, data |-> data, timestamp |-> now,
      expires_in |-> ttl_seconds, set_at |-> now, ttl |-> ttl_seconds ]

\* redis_client.get(storage_key): a key whose time to live has run out is gone
RedisGet(entry, now) ==
    IF entry.present /\ now - entry.set_at < entry.ttl THEN entry ELSE NoEntry

\* a plausible slip: what was saved is returned whatever its age
GetExternalDataUnchecked(entry, now) ==
    IF entry.present THEN entry.data ELSE None

\* GlobalContextStorage.get_external_data
get_external_data(entry, now) ==
    LET cached_data == RedisGet(entry, now)
    IN  IF ~cached_data.present THEN None
        ELSE IF now - cached_data.timestamp > cached_data.expires_in THEN None
        ELSE cached_data.data

\* nothing has been asked of the cache
NoCacheOp == [op |-> "none", data_type |-> "", result |-> None]

-----------------------------------------------------------------------------
(* The fetch of a turn on the cache with its clock *)

\* what _extract_destination_from_context gives: None, or a destination
Destinations == {"", "Paris", "Rome"}

\* the dict a fetcher returns for a destination: success or failure
PayloadFor(destination, success) ==
    [ present |-> TRUE, success |-> success, destination |-> destination ]

\* the external-data part of the classifications of these turns
FetchVerdicts ==
    { v \in ExternalVerdicts :
        /\ v.type = "packing_suggestions"
        /\ v.external_data_needed \/ v.external_data_type = "both" }

\* the redis key of a kind of external data
DataTypeOf == [weather |-> "weather_external_data",
               attractions |-> "attractions_external_data"]

\* no call has been made
NoFetchCall ==
    [ made |-> FALSE, at |-> 0, verdict |-> NoExternalVerdict, destination |-> "",
      before |-> [weather |-> NoEntry, attractions |-> NoEntry],
      fetched |-> {}, raised |-> FALSE, external_data |-> [weather |-> None, attractions |-> None] ]

-----------------------------------------------------------------------------
(* Construction, and the operations of the store *)

Init ==
    /\ store = [sc \in Scopes |-> <<>>]
    /\ nMerges = 0
    /\ lastScope = "none"
    /\ lastF = <<>>
    /\ scopeAB = <<>>
    /\ scopeBA = <<>>
    /\ swapped = <<>>
    /\ called = "none"
    /\ geminiResponse = NoLlmResponse
    /\ geminiResult = NoGeminiResult
    /\ patternResult = NoPatternResult
    /\ finalResult = NoFinalResult
    /\ handlerName = "none"
    /\ sumBuiltin = "none"
    /\ globalContext = <<>>
    /\ typeContext = <<>>
    /\ queryInfo = <<>>
    /\ analysis = NoAnalysis
    /\ gateStep = "idle"
    /\ turnVerdict = NoExternalVerdict
    /\ turnQuery = <<>>
    /\ turnContext = [global |-> <<>>, type_specific |-> <<>>]
    /\ cache = [weather |-> None, attractions |-> None]
    /\ externalData = [weather |-> None, attractions |-> None]
    /\ relevance = NoRelevance
    /\ promptKinds = {}
    /\ strategyStep = "idle"
    /\ strategyHandler = "none"
    /\ recentLength = 0
    /\ infoAnalysis = NoAnalysis
    /\ externalRelevance = NoRelevance
    /\ responseStrategy = DefaultStrategy
    /\ turnStep = "idle"
    /\ turnCount = 0
    /\ classificationResult = NoClassification
    /\ history = <<>>
    /\ turnFailures = {}
    /\ handlerContext = [global |-> <<>>, type_specific |-> <<>>, recent |-> <<>>]
    /\ turnResponse = NoResponse
    /\ finalPrompt = ""
    /\ returned = NoTurnResult
    /\ requestStep = [r \in Requests |-> "idle"]
    /\ requestScope = [r \in Requests |-> "global_context"]
    /\ requestNew = [r \in Requests |-> <<>>]
    /\ requestExisting = [r \in Requests |-> <<>>]
    /\ redis = [k \in RedisKeys |-> Missing(k[2])]
    /\ shared = [name \in Names |-> Missing(name)]
    /\ lastRead = [session |-> "", name |-> "global_context", value |-> <<>>]
    /\ lastOp = [session |-> "", op |-> "", name |-> ""]
    /\ clock = 0
    /\ cacheEntry = [t \in valid_types |-> NoEntry]
    /\ lastCacheOp = NoCacheOp
    /\ fetchCall = NoFetchCall

\* _update_global_context(new_info)
_update_global_context(new_info) ==
    /\ nMerges < MaxMerges
    /\ store' = [store EXCEPT !["global_context"] =
                    _merge_context_arrays(store["global_context"], new_info)]
    /\ nMerges' = nMerges + 1
    /\ lastScope' = "global_context"
    /\ lastF' = new_info
    /\ UNCHANGED <<orderVars, clsVars, scoreVars, gateVars, strategyVars,
                   turnVars, requestVars, sessionVars, cacheVars, fetchVars>>

\* _update_type_specific_context(query_type, new_info)
_update_type_specific_context(query_type, new_info) ==
    /\ nMerges < MaxMerges
    /\ query_type \in valid_query_types
    /\ store' = [store EXCEPT ![query_type] =
                    _merge_context_arrays(store[query_type], new_info)]
    /\ nMerges' = nMerges + 1
    /\ lastScope' = query_type
    /\ lastF' = new_info
    /\ UNCHANGED <<orderVars, clsVars, scoreVars, gateVars, strategyVars,
                   turnVars, requestVars, sessionVars, cacheVars, fetchVars>>

\* clear_all_data(): every key of the session is deleted
clear_all_data ==
    /\ store' = [sc \in Scopes |-> <<>>]
    /\ nMerges' = 0
    /\ lastScope' = "none"
    /\ lastF' = <<>>
    /\ scopeAB' = <<>>
    /\ scopeBA' = <<>>
    /\ swapped' = <<>>
    /\ UNCHANGED <<clsVars, scoreVars, gateVars, strategyVars, turnVars,
                   requestVars, sessionVars, cacheVars, fetchVars>>

UpdateGlobal == \E new_info \in NewInfoLists : _update_global_context(new_info)

UpdateTypeSpecific ==
    \E query_type \in valid_query_types, new_info \in NewInfoLists :
        _update_type_specific_context(query_type, new_info)

Next ==
    \/ UpdateGlobal
    \/ UpdateTypeSpecific
    \/ clear_all_data

Spec == Init /\ [][Next]_vars

-----------------------------------------------------------------------------
(* Two lists merged into one scope in both orders *)

EmptyAcc == [dict |-> <<>>, rest |-> <<>>]

\* the keys of the keyed fragments of a list, as the code reads them
Keys(list) == {KeyOf(list[i]) : i \in {j \in 1..Len(list) : HasColon(list[j])}}

\* the same keys normalized: trimmed and lower case
NormalizedKeys(list) == {lower(k) : k \in Keys(list)}

\* the key-to-value map the code reads from a stored scope
KeyValueMap(list) ==
    LET d == ParseExisting(list, EmptyAcc).dict
    IN  {<<d[i].key, d[i].value>> : i \in 1..Len(d)}

\* the global scope as it is now is merged with first then second, and with
\* second then first (two runs of _update_global_context on the same scope)
MergeInBothOrders(first, second) ==
    /\ swapped = <<>>
    /\ nMerges < MaxMerges
    /\ NormalizedKeys(first) \cap NormalizedKeys(second) = {}
    /\ scopeAB' = _merge_context_arrays(
                     _merge_context_arrays(store["global_context"], first), second)
    /\ scopeBA' = _merge_context_arrays(
                     _merge_context_arrays(store["global_context"], second), first)
    /\ swapped' = <<first, second>>
    /\ UNCHANGED <<storeVars, clsVars, scoreVars, gateVars, strategyVars,
                   turnVars, requestVars, sessionVars, cacheVars, fetchVars>>

UpdateBeforeSwap ==
    /\ swapped = <<>>
    /\ UpdateGlobal

SwapMerge ==
    \E first \in NewInfoLists, second \in NewInfoLists :
        MergeInBothOrders(first, second)

NextCommute ==
    \/ UpdateBeforeSwap
    \/ SwapMerge
    \/ clear_all_data

SpecCommute == Init /\ [][NextCommute]_vars

-----------------------------------------------------------------------------
(* The operations of the classifier *)

\* classify_query(query) with the generative classifier answering response
classify_query(query, response) ==
    /\ called = "none"
    /\ called' = "classify_query"
    /\ geminiResponse' = response
    /\ geminiResult' = classify_with_gemini(response)
    /\ patternResult' = classify_with_patterns(query)
    /\ finalResult' =
          [query |-> query] @@
          (IF geminiResult'.ok
           THEN combine_classifications(geminiResult', patternResult')
           ELSE PatternsFallback(patternResult'))
    /\ UNCHANGED <<storeVars, orderVars, scoreVars, gateVars, strategyVars,
                   turnVars, requestVars, sessionVars, cacheVars, fetchVars>>

\* the dicts classify_with_gemini can return
GeminiResults == {classify_with_gemini(r) : r \in LlmAnswers}

\* pattern results handed to the combiner directly: any type, with a
\* confidence of 0.1, 0.5, 0.6 or 1.0
PatternResults ==
    [ type : valid_query_types,
      confidence : {Unit \div 10, Unit \div 2, (6 * Unit) \div 10, Unit},
      external_data_needed : {FALSE},
      external_data_type : {"none"} ]

\* combine_classifications(gemini_result, pattern_result) called on its own
CallCombine(g, p) ==
    /\ called = "none"
    /\ called' = "combine_classifications"
    /\ geminiResponse' = NoLlmResponse
    /\ geminiResult' = g
    /\ patternResult' = p
    /\ finalResult' = combine_classifications(g, p)
    /\ UNCHANGED <<storeVars, orderVars, scoreVars, gateVars, strategyVars,
                   turnVars, requestVars, sessionVars, cacheVars, fetchVars>>

\* the call has returned; the classifier keeps nothing between calls
Return ==
    /\ called # "none"
    /\ called' = "none"
    /\ geminiResponse' = NoLlmResponse
    /\ geminiResult' = NoGeminiResult
    /\ patternResult' = NoPatternResult
    /\ finalResult' = NoFinalResult
    /\ UNCHANGED <<storeVars, orderVars, scoreVars, gateVars, strategyVars,
                   turnVars, requestVars, sessionVars, cacheVars, fetchVars>>

ClassifyQuery ==
    \E query \in Queries, response \in LlmResponses : classify_query(query, response)

Combine == \E g \in GeminiResults, p \in PatternResults : CallCombine(g, p)

NextClassify ==
    \/ ClassifyQuery
    \/ Combine
    \/ Return

SpecClassify == Init /\ [][NextClassify]_vars

-----------------------------------------------------------------------------
(* The operations of a handler: one analysis per turn, as facts come in *)

\* the numbers in pool of the fragments of list
Picked(pool, list) == {i \in 1..Len(pool) : InList(pool[i], list)}

\* the fragments of pool that come after all those of list: a scope of the
\* store grows at its end
Later(pool, list) ==
    {i \in 1..Len(pool) : \A j \in Picked(pool, list) : j < i}

\* build_final_prompt's call of _analyze_information_completeness
Analyze(handler, global_context, type_specific_context, query_info) ==
    /\ handlerName' = handler
    /\ globalContext' = global_context
    /\ typeContext' = type_specific_context
    /\ queryInfo' = query_info
    /\ analysis' = _analyze_information_completeness(handler, sumBuiltin',
                       query_info, global_context, type_specific_context)
    /\ UNCHANGED <<storeVars, orderVars, clsVars, gateVars, strategyVars,
                   turnVars, requestVars, sessionVars, cacheVars, fetchVars>>

\* the first turn a handler serves: nothing is known yet
FirstTurn ==
    /\ handlerName = "none"
    /\ \E handler \in Handlers, sum_builtin \in SumBuiltins :
          /\ sumBuiltin' = sum_builtin
          /\ Analyze(handler, <<>>, <<>>, <<>>)

\* a later turn: the store has one more fragment in global_context
TurnWithMoreGlobalContext ==
    /\ handlerName # "none"
    /\ sumBuiltin' = sumBuiltin
    /\ \E i \in Later(GlobalFacts[handlerName], globalContext) :
          Analyze(handlerName, Append(globalContext, GlobalFacts[handlerName][i]),
                  typeContext, queryInfo)

\* a later turn: the store has one more fragment in the type's own context
TurnWithMoreTypeContext ==
    /\ handlerName # "none"
    /\ sumBuiltin' = sumBuiltin
    /\ \E i \in Later(TypeFacts[handlerName], typeContext) :
          Analyze(handlerName, globalContext,
                  Append(typeContext, TypeFacts[handlerName][i]), queryInfo)

\* a later turn: one more rule of _extract_info_from_query fires on the
\* utterance and sets its key
TurnWithMoreQueryInfo ==
    /\ handlerName # "none"
    /\ sumBuiltin' = sumBuiltin
    /\ \E i \in 1..Len(QueryKeys[handlerName]) :
          /\ \A j \in i..Len(QueryKeys[handlerName]) :
                ~HasKey(queryInfo, QueryKeys[handlerName][j])
          /\ Analyze(handlerName, globalContext, typeContext,
                     Append(queryInfo, [key |-> QueryKeys[handlerName][i],
                                        value |-> <<"?">>]))

NextScore ==
    \/ FirstTurn
    \/ TurnWithMoreGlobalContext
    \/ TurnWithMoreTypeContext
    \/ TurnWithMoreQueryInfo

SpecScore == Init /\ [][NextScore]_vars

-----------------------------------------------------------------------------
(* The operations of a turn on external data: fetch, gate, prompt *)

\* process_user_message, step 2: get_external_data_for_query_type on the
\* turn's classification
GetExternalData ==
    /\ gateStep = "idle"
    /\ \E classification_result \in ExternalVerdicts, user_query \in GateQueries,
          context \in GateContexts,
          weather_fetch \in WeatherFetches, attractions_fetch \in AttractionsFetches :
          LET got == get_external_data_for_query_type(classification_result,
                         cache, weather_fetch, attractions_fetch)
          IN  /\ gateStep' = "fetched"
              /\ turnVerdict' = classification_result
              /\ turnQuery' = user_query
              /\ turnContext' = context
              /\ externalData' = got.external_data
              /\ cache' = got.cache
              /\ UNCHANGED <<relevance, promptKinds>>
    /\ UNCHANGED <<storeVars, orderVars, clsVars, scoreVars, strategyVars,
                   turnVars, requestVars, sessionVars, cacheVars, fetchVars>>

\* PackingHandler.build_final_prompt: analysis, weather gate, prompt
PackingPrompt ==
    /\ gateStep = "fetched"
    /\ turnVerdict.type = "packing_suggestions"
    /\ gateStep' = "prompted"
    /\ relevance' = _assess_weather_data_relevance(externalData,
                         turnContext.global, turnQuery,
                         _analyze_information_completeness("packing_suggestions",
                             "sequential", <<>>, turnContext.global,
                             turnContext.type_specific))
    /\ promptKinds' = PromptKinds(relevance', externalData)
    /\ UNCHANGED <<turnVerdict, turnQuery, turnContext, externalData, cache>>
    /\ UNCHANGED <<storeVars, orderVars, clsVars, scoreVars, strategyVars,
                   turnVars, requestVars, sessionVars, cacheVars, fetchVars>>

\* AttractionsHandler.build_final_prompt: gate on the classification, prompt
AttractionsPrompt ==
    /\ gateStep = "fetched"
    /\ turnVerdict.type = "local_attractions"
    /\ gateStep' = "prompted"
    /\ relevance' = _assess_external_data_relevance(externalData, turnVerdict)
    /\ promptKinds' = PromptKinds(relevance', externalData)
    /\ UNCHANGED <<turnVerdict, turnQuery, turnContext, externalData, cache>>
    /\ UNCHANGED <<storeVars, orderVars, clsVars, scoreVars, strategyVars,
                   turnVars, requestVars, sessionVars, cacheVars, fetchVars>>

\* route_to_handler for destination_recommendations: build_final_prompt is
\* called with classification_result, which DestinationHandler's does not
\* take; the TypeError is caught and the manager's fallback prompt is built
DestinationPrompt ==
    /\ gateStep = "fetched"
    /\ turnVerdict.type = "destination_recommendations"
    /\ gateStep' = "prompted"
    /\ relevance' = NoRelevance
    /\ promptKinds' = FallbackPromptKinds(externalData)
    /\ UNCHANGED <<turnVerdict, turnQuery, turnContext, externalData, cache>>
    /\ UNCHANGED <<storeVars, orderVars, clsVars, scoreVars, strategyVars,
                   turnVars, requestVars, sessionVars, cacheVars, fetchVars>>

\* the turn is over; the cache stays for the next turn
EndTurn ==
    /\ gateStep = "prompted"
    /\ gateStep' = "idle"
    /\ turnVerdict' = NoExternalVerdict
    /\ turnQuery' = <<>>
    /\ turnContext' = [global |-> <<>>, type_specific |-> <<>>]
    /\ externalData' = [weather |-> None, attractions |-> None]
    /\ relevance' = NoRelevance
    /\ promptKinds' = {}
    /\ UNCHANGED cache
    /\ UNCHANGED <<storeVars, orderVars, clsVars, scoreVars, strategyVars,
                   turnVars, requestVars, sessionVars, cacheVars, fetchVars>>

\* between turns the TTL of a cached payload runs out (setex, 3600 s)
Expire ==
    /\ gateStep = "idle"
    /\ \E kind \in {"weather", "attractions"} :
          /\ cache[kind].present
          /\ cache' = [cache EXCEPT ![kind] = None]
    /\ UNCHANGED <<gateStep, turnVerdict, turnQuery, turnContext, externalData,
                   relevance, promptKinds>>
    /\ UNCHANGED <<storeVars, orderVars, clsVars, scoreVars, strategyVars,
                   turnVars, requestVars, sessionVars, cacheVars, fetchVars>>

NextGate ==
    \/ GetExternalData
    \/ PackingPrompt
    \/ AttractionsPrompt
    \/ DestinationPrompt
    \/ EndTurn
    \/ Expire

SpecGate == Init /\ [][NextGate]_vars

-----------------------------------------------------------------------------
(* The two gates on attractions, applied to a classification and a payload *)

\* AttractionsHandler._assess_external_data_relevance on some arguments
AssessAttractions ==
    /\ gateStep = "idle"
    /\ \E classification_result \in ExternalVerdicts, user_query \in AssessedQueries,
          global_context \in AssessedContexts, external_data \in AssessedData :
          /\ gateStep' = "attractions_gate"
          /\ turnVerdict' = classification_result
          /\ turnQuery' = user_query
          /\ turnContext' = [global |-> global_context, type_specific |-> <<>>]
          /\ externalData' = external_data
          /\ relevance' = _assess_external_data_relevance(external_data,
                              classification_result)
    /\ UNCHANGED <<cache, promptKinds>>
    /\ UNCHANGED <<storeVars, orderVars, clsVars, scoreVars, strategyVars,
                   turnVars, requestVars, sessionVars, cacheVars, fetchVars>>

\* DestinationHandler._assess_external_data_relevance on some arguments
AssessDestination ==
    /\ gateStep = "idle"
    /\ \E classification_result \in ExternalVerdicts, user_query \in AssessedQueries,
          global_context \in AssessedContexts, external_data \in AssessedData :
          /\ gateStep' = "destination_gate"
          /\ turnVerdict' = classification_result
          /\ turnQuery' = user_query
          /\ turnContext' = [global |-> global_context, type_specific |-> <<>>]
          /\ externalData' = external_data
          /\ relevance' = DestinationRelevance(external_data, global_context,
                              user_query)
    /\ UNCHANGED <<cache, promptKinds>>
    /\ UNCHANGED <<storeVars, orderVars, clsVars, scoreVars, strategyVars,
                   turnVars, requestVars, sessionVars, cacheVars, fetchVars>>

\* the gate has returned; it keeps nothing between calls
Assessed ==
    /\ gateStep \in {"attractions_gate", "destination_gate"}
    /\ gateStep' = "idle"
    /\ turnVerdict' = NoExternalVerdict
    /\ turnQuery' = <<>>
    /\ turnContext' = [global |-> <<>>, type_specific |-> <<>>]
    /\ externalData' = [weather |-> None, attractions |-> None]
    /\ relevance' = NoRelevance
    /\ UNCHANGED <<cache, promptKinds>>
    /\ UNCHANGED <<storeVars, orderVars, clsVars, scoreVars, strategyVars,
                   turnVars, requestVars, sessionVars, cacheVars, fetchVars>>

NextAssess ==
    \/ AssessAttractions
    \/ AssessDestination
    \/ Assessed

SpecAssess == Init /\ [][NextAssess]_vars

-----------------------------------------------------------------------------
(* The operations that select a response strategy *)

\* steps 1 and 3 of build_final_prompt: the analysis of what is known, and
\* the strategy for it
SelectStrategy(handler, sum_builtin, global_count, type_count, query_count, external_relevance, conversation_length) ==
    LET info_analysis ==
            _analyze_information_completeness(handler, sum_builtin,
                QueryInfoOf(QueryKeys[handler], query_count),
                FirstOf(GlobalFacts[handler], global_count),
                FirstOf(TypeFacts[handler], type_count))
    IN  /\ strategyStep = "idle"
        /\ strategyStep' = "selected"
        /\ strategyHandler' = handler
        /\ recentLength' = conversation_length
        /\ infoAnalysis' = info_analysis
        /\ externalRelevance' = external_relevance
        /\ responseStrategy' =
              IF handler = "packing_suggestions"
              THEN PackingStrategyOf(info_analysis, external_relevance,
                                     conversation_length)
              ELSE AttractionsStrategyOf(info_analysis, external_relevance,
                                         conversation_length)
        /\ UNCHANGED <<storeVars, orderVars, clsVars, scoreVars, gateVars,
                   turnVars, requestVars, sessionVars, cacheVars, fetchVars>>

\* PackingHandler.build_final_prompt up to its strategy
PackingStrategy ==
    \E sum_builtin \in SumBuiltins,
       global_count \in 0..Len(GlobalFacts.packing_suggestions),
       type_count \in 0..Len(TypeFacts.packing_suggestions),
       query_count \in 0..Len(QueryKeys.packing_suggestions),
       weather_relevance \in PackingRelevances,
       conversation_length \in 0..MaxRecent :
        SelectStrategy("packing_suggestions", sum_builtin, global_count,
                       type_count, query_count, weather_relevance,
                       conversation_length)

\* AttractionsHandler.build_final_prompt up to its strategy
AttractionsStrategy ==
    \E sum_builtin \in SumBuiltins,
       global_count \in 0..Len(GlobalFacts.local_attractions),
       type_count \in 0..Len(TypeFacts.local_attractions),
       query_count \in 0..Len(QueryKeys.local_attractions),
       external_relevance \in AttractionsRelevances,
       conversation_length \in 0..MaxRecent :
        SelectStrategy("local_attractions", sum_builtin, global_count,
                       type_count, query_count, external_relevance,
                       conversation_length)

\* the prompt is built and the handler returns
StrategyUsed ==
    /\ strategyStep = "selected"
    /\ strategyStep' = "idle"
    /\ strategyHandler' = "none"
    /\ recentLength' = 0
    /\ infoAnalysis' = NoAnalysis
    /\ externalRelevance' = NoRelevance
    /\ responseStrategy' = DefaultStrategy
    /\ UNCHANGED <<storeVars, orderVars, clsVars, scoreVars, gateVars,
                   turnVars, requestVars, sessionVars, cacheVars, fetchVars>>

NextStrategy ==
    \/ PackingStrategy
    \/ AttractionsStrategy
    \/ StrategyUsed

SpecStrategy == Init /\ [][NextStrategy]_vars

-----------------------------------------------------------------------------
(* The steps of a turn *)

\* the fact list a classification carries for a scope
FactsFor(classification_result, scope) ==
    IF scope = "global_context"
    THEN classification_result.key_Global_information
    ELSE IF scope = "destination_recommendations"
    THEN classification_result.key_specific_destination_recommendations_information
    ELSE IF scope = "packing_suggestions"
    THEN classification_result.key_specific_packing_suggestions_information
    ELSE classification_result.key_specific_local_attractions_information

\* step 1: classification, or the made-up one when it raised
TurnClassify ==
    /\ turnStep \in {"idle", "returned"}
    /\ turnCount < MaxTurns
    /\ \E outcome \in ClassifierOutcomes :
          /\ classificationResult' = Step1Classify(outcome)
          /\ turnFailures' =
                IF outcome.raises \/ outcome.result.fallback_used
                THEN {"classifier"} ELSE {}
    /\ turnStep' = "classified"
    /\ turnCount' = turnCount + 1
    /\ handlerContext' = [global |-> <<>>, type_specific |-> <<>>, recent |-> <<>>]
    /\ turnResponse' = NoResponse
    /\ finalPrompt' = ""
    /\ externalData' = [weather |-> None, attractions |-> None]
    /\ returned' = NoTurnResult
    /\ UNCHANGED <<store, nMerges, lastScope, lastF, history, cache,
                   gateStep, turnVerdict, turnQuery, turnContext, relevance,
                   promptKinds>>
    /\ UNCHANGED <<orderVars, clsVars, scoreVars, strategyVars,
                   requestVars, sessionVars, cacheVars, fetchVars>>

\* a fetch of the kind was tried on a cache miss and gave no payload
FetchFailure(kind, cached, fetch) ==
    /\ classificationResult.external_data_needed
    /\ classificationResult.external_data_type \in {kind, "both"}
    /\ ~cached.present
    /\ \/ fetch.outcome = "raises"
       \/ fetch.outcome = "returns" /\ ~fetch.result.success

\* what the fetches of these turns do
TurnWeatherFetches ==
    {f \in WeatherFetches :
        f.outcome = "raises" \/ f.result \in {WeatherValid, FetchFailed}}

TurnAttractionsFetches ==
    {f \in AttractionsFetches : f.result \in {AttractionsFound, FetchFailed}}

\* step 2: get_external_data_for_query_type
TurnFetch ==
    /\ turnStep = "classified"
    /\ \E weather_fetch \in TurnWeatherFetches,
          attractions_fetch \in TurnAttractionsFetches :
          LET got == get_external_data_for_query_type(classificationResult,
                         cache, weather_fetch, attractions_fetch)
          IN  /\ externalData' = got.external_data
              /\ cache' = got.cache
              /\ turnFailures' =
                    IF \/ FetchFailure("weather", cache.weather, weather_fetch)
                       \/ /\ weather_fetch.outcome # "raises"
                          /\ FetchFailure("attractions", cache.attractions,
                                          attractions_fetch)
                    THEN turnFailures \cup {"fetch"} ELSE turnFailures
    /\ turnStep' = "fetched"
    /\ UNCHANGED <<store, nMerges, lastScope, lastF, history, returned,
                   classificationResult, turnCount, handlerContext,
                   turnResponse, finalPrompt,
                   gateStep, turnVerdict, turnQuery, turnContext, relevance,
                   promptKinds>>
    /\ UNCHANGED <<orderVars, clsVars, scoreVars, strategyVars,
                   requestVars, sessionVars, cacheVars, fetchVars>>

\* the faults of these turns: none, the history, the global scope's get or
\* set, every command
TurnFaults == {f \in StoreFaults : f.get \in {{}, {"global_context"}, Scopes}}

\* step 3: extract_and_store_key_information, then save_user_query; what
\* they raise is swallowed
TurnStore ==
    /\ turnStep = "fetched"
    /\ \E faults \in TurnFaults :
          /\ store' = extract_and_store_key_information(store,
                          classificationResult, faults)
          /\ history' = SaveMessage(history, "user_query", faults)
          /\ turnFailures' =
                IF \/ faults.history
                   \/ \E sc \in faults.get \cup faults.set :
                         FactsFor(classificationResult, sc) # <<>>
                THEN turnFailures \cup {"store"} ELSE turnFailures
    /\ turnStep' = "stored"
    /\ UNCHANGED <<nMerges, lastScope, lastF, returned, classificationResult,
                   turnCount, handlerContext, turnResponse, finalPrompt,
                   gateVars>>
    /\ UNCHANGED <<orderVars, clsVars, scoreVars, strategyVars,
                   requestVars, sessionVars, cacheVars, fetchVars>>

\* step 4: the context and the recent conversation for the handler
TurnContext ==
    /\ turnStep = "stored"
    /\ \E faults \in TurnFaults :
          /\ faults.set = {}
          /\ handlerContext' = Step4Context(store, history,
                                   classificationResult.type, faults)
          /\ turnFailures' =
                IF \/ faults.history
                   \/ faults.get \cap {"global_context", classificationResult.type} # {}
                THEN turnFailures \cup {"store"} ELSE turnFailures
    /\ turnStep' = "context"
    /\ UNCHANGED <<store, nMerges, lastScope, lastF, history, returned,
                   classificationResult, turnCount, turnResponse, finalPrompt,
                   gateVars>>
    /\ UNCHANGED <<orderVars, clsVars, scoreVars, strategyVars,
                   requestVars, sessionVars, cacheVars, fetchVars>>

\* step 5: route_to_handler and generate_response
TurnRespond ==
    /\ turnStep = "context"
    /\ \E route \in RouteOutcomes, reply \in LlmReplies :
          LET out == Step5Respond(classificationResult.type, route, reply)
          IN  /\ turnStep' = IF out.raised THEN "raised" ELSE "responded"
              /\ turnResponse' = out.response
              /\ finalPrompt' = out.final_prompt
              /\ turnFailures' =
                    IF route # "handler_prompt" \/ reply.raises
                    THEN turnFailures \cup {"handler"} ELSE turnFailures
    /\ UNCHANGED <<store, nMerges, lastScope, lastF, history, returned,
                   classificationResult, turnCount, handlerContext,
                   gateVars>>
    /\ UNCHANGED <<orderVars, clsVars, scoreVars, strategyVars,
                   requestVars, sessionVars, cacheVars, fetchVars>>

\* step 6 and the return: save_assistant_answer, swallowed when it raises
TurnReturn ==
    /\ turnStep = "responded"
    /\ \E faults \in {NoFaults, [NoFaults EXCEPT !.history = TRUE]} :
          /\ history' = IF Truthy(turnResponse)
                        THEN SaveMessage(history, "assistant_answer", faults)
                        ELSE history
          /\ turnFailures' =
                IF faults.history THEN turnFailures \cup {"store"} ELSE turnFailures
    /\ returned' = [ classification_result |-> classificationResult,
                     response |-> turnResponse,
                     final_prompt |-> finalPrompt,
                     handler_used |-> classificationResult.type ]
    /\ turnStep' = "returned"
    /\ UNCHANGED <<store, nMerges, lastScope, lastF, classificationResult,
                   turnCount, handlerContext, turnResponse, finalPrompt,
                   gateVars>>
    /\ UNCHANGED <<orderVars, clsVars, scoreVars, strategyVars,
                   requestVars, sessionVars, cacheVars, fetchVars>>

NextTurn ==
    \/ TurnClassify
    \/ TurnFetch
    \/ TurnStore
    \/ TurnContext
    \/ TurnRespond
    \/ TurnReturn

SpecTurn == Init /\ [][NextTurn]_vars

-----------------------------------------------------------------------------
(* Overlapping turns: the read and the set of an update are two redis commands *)

\* _update_global_context / _update_type_specific_context, first half: the
\* turn of request r reads what the scope holds
ReadExisting(r) ==
    /\ requestStep[r] = "idle"
    /\ \E scope \in Scopes, new_info \in RequestFacts :
          /\ requestScope' = [requestScope EXCEPT ![r] = scope]
          /\ requestNew' = [requestNew EXCEPT ![r] = new_info]
          /\ requestExisting' = [requestExisting EXCEPT ![r] = store[scope]]
    /\ requestStep' = [requestStep EXCEPT ![r] = "read"]
    /\ UNCHANGED <<storeVars, orderVars, clsVars, scoreVars, gateVars,
                   strategyVars, turnVars, sessionVars, cacheVars, fetchVars>>

\* second half: it merges its facts into what it read and sets the key
SaveMerged(r) ==
    /\ requestStep[r] = "read"
    /\ store' = [store EXCEPT ![requestScope[r]] =
                    _merge_context_arrays(requestExisting[r], requestNew[r])]
    /\ requestStep' = [requestStep EXCEPT ![r] = "saved"]
    /\ UNCHANGED <<requestScope, requestNew, requestExisting>>
    /\ UNCHANGED <<nMerges, lastScope, lastF>>
    /\ UNCHANGED <<orderVars, clsVars, scoreVars, gateVars, strategyVars,
                   turnVars, sessionVars, cacheVars, fetchVars>>

Read == \E r \in Requests : ReadExisting(r)

Save == \E r \in Requests : SaveMerged(r)

NextOverlap ==
    \/ Read
    \/ Save

SpecOverlap == Init /\ [][NextOverlap]_vars

-----------------------------------------------------------------------------
(* Conversation sessions over the one storage object *)

\* save_user_query / save_assistant_answer, get_conversation_history,
\* save_external_data and get_external_data go through session_key as the
\* scope updates do

\* _update_global_context / _update_type_specific_context in a turn of
\* session s
SessionUpdate(s) ==
    \E scope \in SessionScopes, new_info \in SessionFacts :
        /\ redis' = [redis EXCEPT ![<<session_key(s), scope>>] =
                        _merge_context_arrays(@, new_info)]
        /\ shared' = [shared EXCEPT ![scope] =
                        _merge_context_arrays(@, new_info)]
        /\ lastOp' = [session |-> s, op |-> "update", name |-> scope]
        /\ UNCHANGED lastRead

\* save_user_query in a turn of session s
SessionSaveQuery(s) ==
    /\ Len(redis[<<session_key(s), "conversation_order">>]) < MaxTurns
    /\ redis' = [redis EXCEPT ![<<session_key(s), "conversation_order">>] =
                    Append(@, "user_query")]
    /\ shared' = [shared EXCEPT !["conversation_order"] = Append(@, "user_query")]
    /\ lastOp' = [session |-> s, op |-> "save", name |-> "conversation_order"]
    /\ UNCHANGED lastRead

\* save_external_data in a turn of session s
SessionSaveExternal(s) ==
    \E data_type \in DOMAIN Fetched :
        /\ redis' = [redis EXCEPT ![<<session_key(s), data_type>>] =
                        Fetched[data_type]]
        /\ shared' = [shared EXCEPT ![data_type] = Fetched[data_type]]
        /\ lastOp' = [session |-> s, op |-> "save", name |-> data_type]
        /\ UNCHANGED lastRead

\* clear_all_data from session s: the keys session_key:* are deleted
SessionClear(s) ==
    /\ redis' = [k \in DOMAIN redis |->
                    IF k[1] = session_key(s) THEN Missing(k[2]) ELSE redis[k]]
    /\ shared' = [name \in Names |-> Missing(name)]
    /\ lastOp' = [session |-> s, op |-> "clear", name |-> ""]
    /\ UNCHANGED lastRead

\* a read in a turn of session s: _get_global_context,
\* _get_type_specific_context, get_conversation_history, get_external_data
SessionRead(s) ==
    \E name \in Names :
        /\ lastRead' = [session |-> s, name |-> name,
                        value |-> redis[<<session_key(s), name>>]]
        /\ lastOp' = [session |-> s, op |-> "read", name |-> name]
        /\ UNCHANGED <<redis, shared>>

Update == \E s \in Sessions : SessionUpdate(s)

SaveQuery == \E s \in Sessions : SessionSaveQuery(s)

SaveExternal == \E s \in Sessions : SessionSaveExternal(s)

Clear == \E s \in Sessions : SessionClear(s)

ReadBack == \E s \in Sessions : SessionRead(s)

NextSessions ==
    /\ \/ Update
       \/ SaveQuery
       \/ SaveExternal
       \/ Clear
       \/ ReadBack
    /\ UNCHANGED <<storeVars, orderVars, clsVars, scoreVars, gateVars,
                   strategyVars, turnVars, requestVars, cacheVars, fetchVars>>

SpecSessions == Init /\ [][NextSessions]_vars

-----------------------------------------------------------------------------
(* The operations of the external cache, as time passes *)

\* GlobalContextStorage.save_external_data(data_type, data)
SaveExternalData ==
    \E data_type \in DataTypes :
        /\ cacheEntry' =
              IF data_type \notin valid_types THEN cacheEntry
              ELSE [cacheEntry EXCEPT ![data_type] = setex(Fetched[data_type], clock)]
        /\ lastCacheOp' = [op |-> "save", data_type |-> data_type, result |-> None]
        /\ UNCHANGED clock
        /\ UNCHANGED <<storeVars, orderVars, clsVars, scoreVars, gateVars,
                   strategyVars, turnVars, requestVars, sessionVars, fetchVars>>

\* GlobalContextStorage.get_external_data(data_type)
GetCachedData ==
    \E data_type \in valid_types :
        /\ lastCacheOp' = [op |-> "get", data_type |-> data_type,
                           result |-> get_external_data(cacheEntry[data_type], clock)]
        /\ UNCHANGED <<clock, cacheEntry>>
        /\ UNCHANGED <<storeVars, orderVars, clsVars, scoreVars, gateVars,
                   strategyVars, turnVars, requestVars, sessionVars, fetchVars>>

\* time passes
Tick ==
    /\ clock < MaxTicks * TickSeconds
    /\ clock' = clock + TickSeconds
    /\ lastCacheOp' = NoCacheOp
    /\ UNCHANGED cacheEntry
    /\ UNCHANGED <<storeVars, orderVars, clsVars, scoreVars, gateVars,
                   strategyVars, turnVars, requestVars, sessionVars, fetchVars>>

NextCache ==
    \/ SaveExternalData
    \/ GetCachedData
    \/ Tick

SpecCache == Init /\ [][NextCache]_vars

-----------------------------------------------------------------------------
(* The pipeline of a turn: classification, merge, score, gate, strategy *)

\* the five arguments route_to_handler passes to every build_final_prompt
PromptArguments ==
    {"user_query", "global_context", "type_specific_context", "external_data",
     "recent_conversation"}

\* a plausible slip: every build_final_prompt takes classification_result
ParametersWithClassification ==
    [ query_type \in valid_query_types |->
        PromptArguments \cup {"classification_result"} ]

\* the parameters of build_final_prompt of the three handlers (none has a
\* default)
build_final_prompt_parameters ==
    [ destination_recommendations |-> PromptArguments,
      packing_suggestions |-> PromptArguments,
      local_attractions |-> PromptArguments \cup {"classification_result"} ]

\* the keyword arguments of route_to_handler's call for a query type
RouteArguments(query_type) ==
    IF query_type \in {"destination_recommendations", "local_attractions"}
    THEN PromptArguments \cup {"classification_result"}
    ELSE PromptArguments

\* route_to_handler: the call raises TypeError for an unexpected or a missing
\* argument, and the except clause returns _build_fallback_prompt
route_to_handler(query_type) ==
    IF RouteArguments(query_type) = build_final_prompt_parameters[query_type]
    THEN "handler" ELSE "fallback"

\* what classify_query returns in the turns of the pipeline: a type, a need of
\* external data, and facts with required keys for the global scope and for
\* the scope of the type
PipelineClassifications ==
    { Classification(type, needed, IF needed THEN "both" ELSE "none",
                     global,
                     IF type = "destination_recommendations" THEN own ELSE <<>>,
                     IF type = "packing_suggestions" THEN own ELSE <<>>,
                     IF type = "local_attractions" THEN own ELSE <<>>,
                     "llm", FALSE) :
        type \in valid_query_types, needed \in BOOLEAN,
        global \in {<<>>, <<DestinationParis>>},
        own \in {<<>>, <<TravelDatesTomorrow>>} }

\* the redis faults of the pipeline's turns: none, or every command raises
PipelineFaults == {NoFaults, [get |-> Scopes, set |-> Scopes, history |-> TRUE]}

\* the turns of a conversation in the pipeline
MaxPipelineTurns == 4

\* step 1: classify_query
PipeClassify ==
    /\ turnStep \in {"idle", "returned"}
    /\ turnCount < MaxPipelineTurns
    /\ \E classification_result \in PipelineClassifications,
          user_query \in {QueryPackMarch, QueryLeavingTomorrow} :
          /\ classificationResult' = classification_result
          /\ turnQuery' = user_query
    /\ turnStep' = "classified"
    /\ turnCount' = turnCount + 1
    /\ turnFailures' = {}
    /\ handlerContext' = [global |-> <<>>, type_specific |-> <<>>, recent |-> <<>>]
    /\ externalData' = [weather |-> None, attractions |-> None]
    /\ handlerName' = "none"
    /\ sumBuiltin' = "none"
    /\ analysis' = NoAnalysis
    /\ relevance' = NoRelevance
    /\ promptKinds' = {}
    /\ responseStrategy' = DefaultStrategy
    /\ finalPrompt' = ""
    /\ UNCHANGED <<store, nMerges, lastScope, lastF, history, cache, gateStep,
                   turnVerdict, turnContext, globalContext, typeContext,
                   queryInfo, strategyStep, strategyHandler, recentLength,
                   infoAnalysis, externalRelevance, turnResponse, returned>>
    /\ UNCHANGED <<orderVars, clsVars, requestVars,
                   sessionVars, cacheVars, fetchVars>>

\* step 2: get_external_data_for_query_type; the fetches succeed
PipeFetch ==
    /\ turnStep = "classified"
    /\ LET got == get_external_data_for_query_type(classificationResult, cache,
                      [outcome |-> "returns", result |-> WeatherValid],
                      [outcome |-> "returns", result |-> AttractionsFound])
       IN  /\ externalData' = got.external_data
           /\ cache' = got.cache
    /\ turnStep' = "fetched"
    /\ UNCHANGED <<store, nMerges, lastScope, lastF, history, gateStep,
                   turnVerdict, turnQuery, turnContext, relevance, promptKinds,
                   turnCount, classificationResult, turnFailures,
                   handlerContext, turnResponse, finalPrompt, returned>>
    /\ UNCHANGED <<orderVars, clsVars, scoreVars, strategyVars,
                   requestVars, sessionVars, cacheVars, fetchVars>>

\* step 3: extract_and_store_key_information, then save_user_query
PipeMerge ==
    /\ turnStep = "fetched"
    /\ \E faults \in PipelineFaults :
          /\ store' = extract_and_store_key_information(store,
                          classificationResult, faults)
          /\ history' = SaveMessage(history, "user_query", faults)
          /\ turnFailures' = IF faults = NoFaults THEN turnFailures
                             ELSE turnFailures \cup {"store"}
    /\ turnStep' = "stored"
    /\ UNCHANGED <<nMerges, lastScope, lastF, turnCount, classificationResult,
                   handlerContext, turnResponse, finalPrompt, returned,
                   gateVars>>
    /\ UNCHANGED <<orderVars, clsVars, scoreVars, strategyVars,
                   requestVars, sessionVars, cacheVars, fetchVars>>

\* step 4: the context of the type and the recent conversation
PipeContext ==
    /\ turnStep = "stored"
    /\ \E faults \in PipelineFaults :
          /\ handlerContext' = Step4Context(store, history,
                                   classificationResult.type, faults)
          /\ turnFailures' = IF faults = NoFaults THEN turnFailures
                             ELSE turnFailures \cup {"store"}
    /\ turnStep' = "context"
    /\ UNCHANGED <<store, nMerges, lastScope, lastF, history, turnCount,
                   classificationResult, turnResponse, finalPrompt, returned,
                   gateVars>>
    /\ UNCHANGED <<orderVars, clsVars, scoreVars, strategyVars,
                   requestVars, sessionVars, cacheVars, fetchVars>>

\* build_final_prompt of the packing and the attractions handler, first step:
\* _analyze_information_completeness on the context of step 4
PipeScore ==
    /\ turnStep = "context"
    /\ route_to_handler(classificationResult.type) = "handler"
    /\ \E sum_builtin \in SumBuiltins :
          /\ sumBuiltin' = sum_builtin
          /\ analysis' = _analyze_information_completeness(
                             classificationResult.type, sum_builtin, <<>>,
                             handlerContext.global, handlerContext.type_specific)
    /\ handlerName' = classificationResult.type
    /\ turnStep' = "scored"
    /\ UNCHANGED <<globalContext, typeContext, queryInfo>>
    /\ UNCHANGED <<store, nMerges, lastScope, lastF, history, turnCount,
                   classificationResult, turnFailures, handlerContext,
                   turnResponse, finalPrompt, returned, gateVars>>
    /\ UNCHANGED <<orderVars, clsVars, strategyVars, requestVars,
                   sessionVars, cacheVars, fetchVars>>

\* second step: the relevance gate of the handler
PipeGate ==
    /\ turnStep = "scored"
    /\ relevance' =
          IF classificationResult.type = "packing_suggestions"
          THEN _assess_weather_data_relevance(externalData,
                   handlerContext.global, turnQuery, analysis)
          ELSE IF classificationResult.type = "local_attractions"
          THEN _assess_external_data_relevance(externalData,
                   classificationResult)
          ELSE DestinationRelevance(externalData, handlerContext.global,
                   turnQuery)
    /\ turnStep' = "gated"
    /\ UNCHANGED <<gateStep, turnVerdict, turnQuery, turnContext, cache,
                   externalData, promptKinds>>
    /\ UNCHANGED <<store, nMerges, lastScope, lastF, history, turnCount,
                   classificationResult, turnFailures, handlerContext,
                   turnResponse, finalPrompt, returned>>
    /\ UNCHANGED <<orderVars, clsVars, scoreVars, strategyVars,
                   requestVars, sessionVars, cacheVars, fetchVars>>

\* third step: _determine_response_strategy; the strategic prompt built on
\* it is returned to route_to_handler
PipeSelect ==
    /\ turnStep = "gated"
    /\ classificationResult.type \in {"packing_suggestions", "local_attractions"}
    /\ responseStrategy' =
          IF classificationResult.type = "packing_suggestions"
          THEN PackingStrategyOf(analysis, relevance, Len(handlerContext.recent))
          ELSE AttractionsStrategyOf(analysis, relevance,
                                     Len(handlerContext.recent))
    /\ finalPrompt' = "handler"
    /\ turnStep' = "selected"
    /\ UNCHANGED <<strategyStep, strategyHandler, recentLength, infoAnalysis,
                   externalRelevance>>
    /\ UNCHANGED <<store, nMerges, lastScope, lastF, history, turnCount,
                   classificationResult, turnFailures, handlerContext,
                   turnResponse, returned, gateVars>>
    /\ UNCHANGED <<orderVars, clsVars, scoreVars, requestVars,
                   sessionVars, cacheVars, fetchVars>>

\* route_to_handler when the call of build_final_prompt raised: the except
\* clause returns _build_fallback_prompt
PipeFallback ==
    /\ turnStep = "context"
    /\ route_to_handler(classificationResult.type) = "fallback"
    /\ finalPrompt' = "fallback"
    /\ promptKinds' = FallbackPromptKinds(externalData)
    /\ turnStep' = "fallback"
    /\ UNCHANGED <<gateStep, turnVerdict, turnQuery, turnContext, cache,
                   externalData, relevance>>
    /\ UNCHANGED <<store, nMerges, lastScope, lastF, history, turnCount,
                   classificationResult, turnFailures, handlerContext,
                   turnResponse, returned>>
    /\ UNCHANGED <<orderVars, clsVars, scoreVars, strategyVars,
                   requestVars, sessionVars, cacheVars, fetchVars>>

\* steps 5 and 6: the model answers, the answer is saved and
\* process_user_message returns; its locals and the handler's are gone
PipeAnswer ==
    /\ turnStep \in {"selected", "fallback"}
    /\ history' = SaveMessage(history, "assistant_answer", NoFaults)
    /\ turnStep' = "returned"
    /\ classificationResult' = NoClassification
    /\ turnQuery' = <<>>
    /\ turnFailures' = {}
    /\ handlerContext' = [global |-> <<>>, type_specific |-> <<>>, recent |-> <<>>]
    /\ externalData' = [weather |-> None, attractions |-> None]
    /\ handlerName' = "none"
    /\ sumBuiltin' = "none"
    /\ analysis' = NoAnalysis
    /\ relevance' = NoRelevance
    /\ promptKinds' = {}
    /\ responseStrategy' = DefaultStrategy
    /\ finalPrompt' = ""
    /\ UNCHANGED <<store, nMerges, lastScope, lastF, turnCount, cache, gateStep,
                   turnVerdict, turnContext, globalContext, typeContext,
                   queryInfo, strategyStep, strategyHandler, recentLength,
                   infoAnalysis, externalRelevance, turnResponse, returned>>
    /\ UNCHANGED <<orderVars, clsVars, requestVars,
                   sessionVars, cacheVars, fetchVars>>

NextPipeline ==
    \/ PipeClassify
    \/ PipeFetch
    \/ PipeMerge
    \/ PipeContext
    \/ PipeScore
    \/ PipeGate
    \/ PipeSelect
    \/ PipeFallback
    \/ PipeAnswer

SpecPipeline == Init /\ [][NextPipeline]_vars

-----------------------------------------------------------------------------
(* A turn from the primary's answer to the store *)

\* what the generative classifier answers in these turns
PrimaryResponses ==
    LlmFailures
        \cup { a \in LlmAnswers :
                 /\ a.type \in {"packing_suggestions", "flights"}
                 /\ a.external_data_type \in {"weather", "forecast"} }

\* step 1 with classify_query run on the primary's answer
TurnClassifyQuery ==
    /\ turnStep \in {"idle", "returned"}
    /\ turnCount < MaxTurns
    /\ \E query \in {QueryHello}, response \in PrimaryResponses :
          LET gemini_result == classify_with_gemini(response)
              pattern_result == classify_with_patterns(query)
              final_result ==
                  IF gemini_result.ok
                  THEN combine_classifications(gemini_result, pattern_result)
                  ELSE PatternsFallback(pattern_result)
          IN  /\ geminiResponse' = response
              /\ geminiResult' = gemini_result
              /\ patternResult' = pattern_result
              /\ finalResult' = [query |-> query] @@ final_result
              /\ classificationResult' = final_result
              /\ turnQuery' = query
              /\ turnFailures' =
                    IF final_result.fallback_used THEN {"classifier"} ELSE {}
    /\ called' = "classify_query"
    /\ turnStep' = "classified"
    /\ turnCount' = turnCount + 1
    /\ externalData' = [weather |-> None, attractions |-> None]
    /\ UNCHANGED <<store, nMerges, lastScope, lastF, history, handlerContext,
                   turnResponse, finalPrompt, returned, gateStep, turnVerdict,
                   turnContext, cache, relevance, promptKinds>>
    /\ UNCHANGED <<orderVars, scoreVars, strategyVars, requestVars,
                   sessionVars, cacheVars, fetchVars>>

\* steps 4 to 6: the handler's prompt is answered and the answer saved
TurnAnswered ==
    /\ turnStep = "stored"
    /\ history' = SaveMessage(history, "assistant_answer", NoFaults)
    /\ turnStep' = "returned"
    /\ UNCHANGED <<store, nMerges, lastScope, lastF, turnCount,
                   classificationResult, turnFailures, handlerContext,
                   turnResponse, finalPrompt, returned, gateVars>>
    /\ UNCHANGED <<orderVars, clsVars, scoreVars, strategyVars,
                   requestVars, sessionVars, cacheVars, fetchVars>>

NextFallback ==
    \/ TurnClassifyQuery
    \/ PipeFetch
    \/ PipeMerge
    \/ TurnAnswered

SpecFallback == Init /\ [][NextFallback]_vars

-----------------------------------------------------------------------------
(* The operations of the fetch on the cache with its clock *)

\* get_external_data_for_query_type(query_type, classification_result): the
\* cache is read with get_external_data and written with save_external_data
FetchForTurn ==
    \E classification_result \in FetchVerdicts, destination \in Destinations,
       weather_outcome \in {"raises", "success", "failure"},
       attractions_outcome \in {"success", "failure"} :
        LET cached == [k \in {"weather", "attractions"} |->
                          get_external_data(cacheEntry[DataTypeOf[k]], clock)]
            weather_fetch ==
                IF destination = "" THEN [outcome |-> "no_destination", result |-> None]
                ELSE IF weather_outcome = "raises"
                THEN [outcome |-> "raises", result |-> None]
                ELSE [outcome |-> "returns",
                      result |-> PayloadFor(destination, weather_outcome = "success")]
            attractions_fetch ==
                IF destination = "" THEN [outcome |-> "no_destination", result |-> None]
                ELSE [outcome |-> "returns",
                      result |-> PayloadFor(destination, attractions_outcome = "success")]
            got == get_external_data_for_query_type(classification_result,
                       cached, weather_fetch, attractions_fetch)
        IN  /\ ~fetchCall.made
            /\ cacheEntry' =
                  [t \in valid_types |->
                      LET k == CHOOSE kind \in {"weather", "attractions"} :
                                  DataTypeOf[kind] = t
                      IN  IF got.cache[k] # cached[k]
                          THEN setex(got.cache[k], clock)
                          ELSE cacheEntry[t]]
            /\ fetchCall' =
                  [ made |-> TRUE, at |-> clock,
                    verdict |-> classification_result,
                    destination |-> destination,
                    before |-> [k \in {"weather", "attractions"} |->
                                   cacheEntry[DataTypeOf[k]]],
                    fetched |-> got.fetched,
                    raised |-> got.raised,
                    external_data |-> got.external_data ]
            /\ UNCHANGED <<clock, lastCacheOp>>
            /\ UNCHANGED <<storeVars, orderVars, clsVars, scoreVars, gateVars,
                           strategyVars, turnVars, requestVars, sessionVars>>

\* the call has returned
FetchReturned ==
    /\ fetchCall.made
    /\ fetchCall' = NoFetchCall
    /\ UNCHANGED <<storeVars, orderVars, clsVars, scoreVars, gateVars,
                   strategyVars, turnVars, requestVars, sessionVars, cacheVars>>

\* time passes between two calls
TimePasses == ~fetchCall.made /\ Tick

NextFetch ==
    \/ FetchForTurn
    \/ FetchReturned
    \/ TimePasses

SpecFetch == Init /\ [][NextFetch]_vars

-----------------------------------------------------------------------------
(* Claims about the fact merge store *)

\* some _update_*_context call has just run
MergeStep == nMerges' = nMerges + 1

\* C1: merge idempotence.  A merge that repeats the previous merge (same
\* scope, same fragment list) leaves the scope exactly as the first left it.
C1_MergeIdempotence ==
    [][(MergeStep /\ lastScope' = lastScope /\ lastF' = lastF)
          => store'[lastScope] = store[lastScope]]_vars

\* C2: key uniqueness.  In every scope, no two stored keyed fragments have
\* the same normalized key (trimmed, compared without case).
C2_KeyUniqueness ==
    \A sc \in Scopes : \A i, j \in 1..Len(store[sc]) :
        (i # j /\ HasColon(store[sc][i]) /\ HasColon(store[sc][j]))
            => lower(KeyOf(store[sc][i])) # lower(KeyOf(store[sc][j]))

StoredValues(list) ==
    UNION { LET k == KeyOf(list[i])
                v == ValueOf(list[i])
                parts == SplitCommaSpace(v)
            IN  {<<k, v>>} \cup {<<k, parts[n]>> : n \in 1..Len(parts)}
            : i \in {j \in 1..Len(list) : HasColon(list[j])} }

\* the values a list of new fragments brings: those of the fragments the
\* merge does not skip as empty
MergedValues(new) ==
    {<<KeyOf(new[i]), ValueOf(new[i])>> :
        i \in {j \in 1..Len(new) : HasColon(new[j]) /\ strip(new[j]) # <<>>}}

\* C4: value retention.  A merge stores every value it is given and removes
\* no value the scope already held.
C4_ValueRetention ==
    [][MergeStep =>
        /\ MergedValues(lastF') \subseteq StoredValues(store'[lastScope'])
        /\ \A sc \in Scopes :
              StoredValues(store[sc]) \subseteq StoredValues(store'[sc])]_vars

\* C5: commutativity on disjoint keys.  Two lists with disjoint keys merged
\* into the same scope in either order give the same key-to-value map.
C5_MergeCommutes ==
    swapped # <<>> => KeyValueMap(scopeAB) = KeyValueMap(scopeBA)

-----------------------------------------------------------------------------
(* Claims about the classifier.  The code writes the source of a verdict as *)
(* "consensus", "llm" (the primary), "patterns" (the secondary) and         *)
(* "patterns_fallback" (the secondary after a primary failure).             *)

NoFactArrays(result) ==
    /\ result.key_Global_information = <<>>
    /\ result.key_specific_destination_recommendations_information = <<>>
    /\ result.key_specific_packing_suggestions_information = <<>>
    /\ result.key_specific_local_attractions_information = <<>>

\* C6: primary-failure fallback.  When the generative classifier failed,
\* classify_query returns the pattern verdict's type, confidence and
\* external-data verdict, marked fallback_used with source
\* "patterns_fallback", and all four fact arrays empty.
C6_PrimaryFailureFallback ==
    (called = "classify_query" /\ ~geminiResult.ok) =>
        /\ finalResult.type = patternResult.type
        /\ finalResult.confidence_score = patternResult.confidence
        /\ finalResult.external_data_needed = patternResult.external_data_needed
        /\ finalResult.external_data_type = patternResult.external_data_type
        /\ finalResult.fallback_used
        /\ finalResult.primary_source = "patterns_fallback"
        /\ NoFactArrays(finalResult)

\* C6 witness: the primary failed on "what should I pack for my trip next
\* March" and the pattern verdict (packing, weather) came back
C6_Witness ==
    /\ called = "classify_query"
    /\ ~geminiResult.ok
    /\ finalResult.query = QueryPackMarch
    /\ finalResult.type = "packing_suggestions"
    /\ finalResult.external_data_type = "weather"
    /\ finalResult.external_data_needed

\* C7: disagreement rule.  When the two types differ and 0.8 > 0.2 x the
\* pattern confidence, the verdict has the primary's type, confidence 0.8 and
\* source "llm"; so for primary packing_suggestions against pattern
\* destination_recommendations with confidence 0.6.
C7_DisagreementRule ==
    /\ (/\ called # "none"
        /\ geminiResult.ok
        /\ geminiResult.type # patternResult.type
        /\ 8 * Unit > 2 * patternResult.confidence) =>
            /\ finalResult.type = geminiResult.type
            /\ 10 * finalResult.confidence_score = 8 * Unit
            /\ finalResult.primary_source = "llm"
    /\ (/\ called = "combine_classifications"
        /\ geminiResult.type = "packing_suggestions"
        /\ patternResult.type = "destination_recommendations"
        /\ 10 * patternResult.confidence = 6 * Unit) =>
            /\ finalResult.type = "packing_suggestions"
            /\ 10 * finalResult.confidence_score = 8 * Unit
            /\ finalResult.primary_source = "llm"

\* C7 witness: the combiner has run on the example
C7_Witness ==
    /\ called = "combine_classifications"
    /\ geminiResult.type = "packing_suggestions"
    /\ patternResult.type = "destination_recommendations"
    /\ 10 * patternResult.confidence = 6 * Unit
    /\ finalResult.primary_source = "llm"

\* C8: consensus bonus.  When the two types agree the verdict has that
\* type, source "consensus" and confidence 0.8 + 0.2 x the pattern
\* confidence + 0.3, which is 1.2 for a pattern confidence of 0.5.
C8_ConsensusBonus ==
    /\ (/\ called # "none"
        /\ geminiResult.ok
        /\ geminiResult.type = patternResult.type) =>
            /\ finalResult.type = patternResult.type
            /\ finalResult.primary_source = "consensus"
            /\ 10 * finalResult.confidence_score
                  = 8 * Unit + 2 * patternResult.confidence + 3 * Unit
    /\ (/\ called = "combine_classifications"
        /\ geminiResult.type = "local_attractions"
        /\ patternResult.type = "local_attractions"
        /\ 2 * patternResult.confidence = Unit) =>
            /\ 10 * finalResult.confidence_score = 12 * Unit
            /\ finalResult.primary_source = "consensus"

\* C8 witness: the combiner has run on the example
C8_Witness ==
    /\ called = "combine_classifications"
    /\ geminiResult.type = "local_attractions"
    /\ patternResult.type = "local_attractions"
    /\ 2 * patternResult.confidence = Unit
    /\ finalResult.type = "local_attractions"

\* C9: confidence range.  The confidence of every verdict classify_query
\* returns lies in [0, 1].
C9_ConfidenceRange ==
    called = "classify_query" =>
        (0 <= finalResult.confidence_score /\ finalResult.confidence_score <= Unit)

-----------------------------------------------------------------------------
(* Claims about the completeness scorer *)

KeysOf(d) == {d[i].key : i \in 1..Len(d)}

\* every keyword of every category of a handler
RequiredKeys ==
    [ handler \in Handlers |->
        UNION { {c.keywords[i] : i \in 1..Len(c.keywords)} :
                c \in {critical_info_categories[handler][j] :
                         j \in 1..Len(critical_info_categories[handler])} } ]

TierRank(information_quality) ==
    CASE information_quality = "minimal" -> 0
      [] information_quality = "partial" -> 1
      [] information_quality = "sufficient" -> 2
      [] information_quality = "complete" -> 3

\* the turn gave the same handler the facts it had and one required key more
RequiredKeyAdded ==
    /\ handlerName # "none"
    /\ handlerName' = handlerName
    /\ Len(analysis'.available_info) = Len(analysis.available_info) + 1
    /\ KeysOf(analysis.available_info) \subseteq KeysOf(analysis'.available_info)
    /\ (KeysOf(analysis'.available_info) \ KeysOf(analysis.available_info))
          \subseteq RequiredKeys[handlerName]

\* C10: completeness monotonicity.  For each handler's taxonomy and any
\* available-facts map, adding a required key that was absent never decreases
\* the overall score and never lowers the tier.
C10_CompletenessMonotone ==
    [][ RequiredKeyAdded =>
          /\ FloatGeq(analysis'.completeness_score, analysis.completeness_score)
          /\ TierRank(analysis'.information_quality)
                >= TierRank(analysis.information_quality) ]_vars

\* every required key of a handler has been added, one at a time
C10_Witness ==
    /\ handlerName \in Handlers
    /\ KeysOf(analysis.available_info) = RequiredKeys[handlerName]
    /\ analysis.information_quality = "complete"

-----------------------------------------------------------------------------
(* Claims about external data *)

\* the turn's classification asks for the kind
Requested(kind) ==
    /\ turnVerdict.external_data_needed
    /\ turnVerdict.external_data_type \in {kind, "both"}

\* the temporal check of the weather gate: near-term words in the utterance
\* or the context, or right-now words in the utterance
TemporalCheckPasses ==
    \/ AnyIn(immediate_indicators, lower(turnQuery))
    \/ \E i \in 1..Len(turnContext.global) :
          AnyIn(immediate_indicators, lower(turnContext.global[i]))
    \/ \E i \in 1..Len(turnContext.type_specific) :
          AnyIn(immediate_indicators, lower(turnContext.type_specific[i]))
    \/ AnyIn(weather_query_indicators, lower(turnQuery))

\* C11: weather temporal gate.  Weather is relevant only if the
\* classification asked for it, the payload is there, reports success, has a
\* usable current reading, and the temporal check passes; with a valid payload
\* "what should I pack for my trip next March" gives not relevant with the
\* future-trip reason and "I'm leaving tomorrow, what should I pack" gives
\* relevant.
C11_WeatherTemporalGate ==
    gateStep = "prompted" =>
        /\ relevance.weather_relevant =>
              /\ Requested("weather")
              /\ externalData.weather.present
              /\ externalData.weather.success
              /\ ValidReading(externalData.weather)
              /\ TemporalCheckPasses
        /\ ( /\ turnVerdict.type = "packing_suggestions"
             /\ externalData.weather = WeatherValid
             /\ turnQuery = QueryPackMarch
             /\ turnContext = [global |-> <<>>, type_specific |-> <<>>] )
              => /\ ~relevance.weather_relevant
                 /\ relevance.temporal_relevance = "future_trip"
        /\ ( /\ turnVerdict.type = "packing_suggestions"
             /\ externalData.weather = WeatherValid
             /\ turnQuery = QueryLeavingTomorrow )
              => relevance.weather_relevant

\* C12: no unrequested kind is surfaced.  In every turn, for each kind the
\* classification did not ask for (external_data_needed false, or
\* external_data_type neither the kind nor "both"): the kind is not fetched for
\* the handler, the gate's verdict for it is not relevant, and no payload of
\* the kind is in the prompt, whatever the cache holds.
C12_NoUnrequestedKind ==
    \A kind \in {"weather", "attractions"} :
        (gateStep \in {"fetched", "prompted"} /\ ~Requested(kind)) =>
            /\ ~externalData[kind].present
            /\ gateStep = "prompted" =>
                  /\ kind = "weather" =>
                        ~relevance.weather_relevant /\ ~relevance.use_weather
                  /\ kind = "attractions" =>
                        ~relevance.attractions_relevant /\ ~relevance.use_attractions
                  /\ kind \notin promptKinds

\* a prompt was built by a handler's gate in a turn that did not ask for
\* weather, while a fresh weather payload was in the cache
C12_Witness ==
    /\ gateStep = "prompted"
    /\ turnVerdict.type \in {"packing_suggestions", "local_attractions"}
    /\ ~Requested("weather")
    /\ cache.weather = WeatherValid
    /\ turnQuery = QueryLeavingTomorrow

-----------------------------------------------------------------------------
(* Claims about the response strategy *)

\* C13: strategy escalation.  With the tier minimal and more than 4 prior
\* turns the selector returns hybrid and never question_focused; with the tier
\* minimal and at most 4 prior turns it returns question_focused.
C13_StrategyEscalation ==
    (strategyStep = "selected" /\ infoAnalysis.information_quality = "minimal") =>
        /\ recentLength > 4 => responseStrategy.type = "hybrid"
        /\ recentLength <= 4 => responseStrategy.type = "question_focused"

-----------------------------------------------------------------------------
(* Claims about the turn and its failures *)

\* what process_user_message returned is a non-empty response string with a
\* classification result
ReturnedWell ==
    turnStep = "returned" =>
        /\ returned.response.said # "" \/ strip(returned.response.text) # <<>>
        /\ returned.classification_result.type \in valid_query_types
        /\ returned.handler_used = returned.classification_result.type

\* C14: graceful degradation.  Whatever fails within a turn (the primary
\* classifier, an external fetch, a read or write of the backing store, the
\* handler), process_user_message does not raise: no step aborts the turn,
\* and what it returns has a non-empty response string and a classification
\* result.
C14_GracefulDegradation == turnStep # "raised" /\ ReturnedWell

\* a turn in which all four classes of failure occurred has returned
C14_Witness ==
    /\ turnStep = "returned"
    /\ turnFailures = {"classifier", "fetch", "store", "handler"}

\* step 3 of a turn: its facts are merged into the store
StoreStep == turnStep = "fetched" /\ turnStep' = "stored"

\* C15: a store failure loses at most the current turn's facts.  When a read
\* or a write of the backing store fails during a turn's merge, the failure is
\* swallowed, the turn completes, and every fact stored by earlier turns is
\* still in its scope.
C15_StoreFailureKeepsEarlierFacts ==
    [][StoreStep =>
        \A sc \in Scopes :
            StoredValues(store[sc]) \subseteq StoredValues(store'[sc])]_vars

-----------------------------------------------------------------------------
(* Claims about overlapping turns and sessions *)

\* C16: atomic merge, no lost update.  When two turns overlap and merge into
\* the same scope, under every interleaving of their reads and writes the
\* scope holds the facts merged by both once both have saved.
C16_NoLostUpdate ==
    \A r \in Requests :
        requestStep[r] = "saved" =>
            MergedValues(requestNew[r])
                \subseteq StoredValues(store[requestScope[r]])

\* C17: single implicit session.  Every store operation is keyed by one fixed
\* session identifier, so two sessions read and write the same state: what a
\* session reads (a scope, the history, a cached payload) is what the sessions
\* together have written, a fact merged by one is returned to the other, and
\* a reset by one clears what the other stored.
C17_SingleImplicitSession ==
    /\ lastOp.op = "read" => lastRead.value = shared[lastRead.name]
    /\ lastOp.op = "clear" =>
          \A s \in Sessions, name \in Names :
              redis[<<session_key(s), name>>] = Missing(name)

\* session_2 reads back the fact that only session_1 has merged
C17_Witness ==
    /\ lastOp = [session |-> "session_2", op |-> "read", name |-> "global_context"]
    /\ lastRead.value = <<FactA1>>
    /\ \A k \in DOMAIN redis :
          k[2] # "global_context" => redis[k] = Missing(k[2])

-----------------------------------------------------------------------------
(* Claims about the checks on the primary's answer *)

\* the answer lacks a required field, or names a type or a kind of external
\* data outside the valid ones
MalformedOutput(answer) ==
    \/ answer.kind = "missing_field"
    \/ /\ answer.kind = "ok"
       /\ \/ answer.type \notin valid_query_types
          \/ answer.external_data_type \notin valid_external_types

\* C18: malformed primary output is a classifier failure.  When the primary's
\* answer lacks a required field, or carries an invalid type or an invalid
\* kind of external data, classify_query returns the verdict of the patterns
\* alone, with fallback_used true.
C18_MalformedOutputFallsBack ==
    (called = "classify_query" /\ MalformedOutput(geminiResponse)) =>
        /\ finalResult.fallback_used
        /\ finalResult.primary_source = "patterns_fallback"

\* the answers with a missing field do fall back
MissingFieldFallsBack ==
    (called = "classify_query" /\ geminiResponse.kind = "missing_field") =>
        /\ finalResult.fallback_used
        /\ finalResult.primary_source = "patterns_fallback"

\* the four fact arrays of the verdict are those of the primary
FactArraysOfPrimary ==
    /\ finalResult.key_Global_information = geminiResult.key_Global_information
    /\ finalResult.key_specific_destination_recommendations_information =
          geminiResult.key_specific_destination_recommendations_information
    /\ finalResult.key_specific_packing_suggestions_information =
          geminiResult.key_specific_packing_suggestions_information
    /\ finalResult.key_specific_local_attractions_information =
          geminiResult.key_specific_local_attractions_information

\* C19: the external-data verdict and the facts come from the primary only.
\* Whenever the primary succeeded, the combined verdict's external_data_needed,
\* external_data_type and four fact arrays equal the primary's, whichever
\* branch settled the type; and when the primary's answer named a kind other
\* than weather, attractions, both or none, the combined verdict has
\* external_data_type "none" and external_data_needed false.
C19_ExternalAndFactsFromPrimary ==
    /\ (called # "none" /\ geminiResult.ok) =>
          /\ finalResult.external_data_needed = geminiResult.external_data_needed
          /\ finalResult.external_data_type = geminiResult.external_data_type
          /\ FactArraysOfPrimary
    /\ (/\ called = "classify_query"
        /\ geminiResponse.kind = "ok"
        /\ geminiResponse.external_data_type \notin valid_external_types) =>
          /\ finalResult.external_data_type = "none"
          /\ ~finalResult.external_data_needed

\* C19 witness: on "what should I pack for my trip next March" the patterns
\* say packing and ask for weather, while the primary answered attractions
\* with facts, a need of external data and the kind "forecast"
C19_Witness ==
    /\ called = "classify_query"
    /\ geminiResult.ok
    /\ finalResult.query = QueryPackMarch
    /\ finalResult.primary_source = "llm"
    /\ geminiResult.type = "local_attractions"
    /\ patternResult.type = "packing_suggestions"
    /\ patternResult.external_data_type = "weather"
    /\ geminiResponse.external_data_type = "forecast"
    /\ geminiResponse.external_data_needed
    /\ finalResult.external_data_type = "none"
    /\ finalResult.key_Global_information = <<Budget2000>>

-----------------------------------------------------------------------------
(* Claims about the tier of an analysis *)

\* the number of the keywords that are keys of available_info
Present(keywords, available_info) ==
    Cardinality({i \in 1..Len(keywords) : HasKey(available_info, keywords[i])})

\* the product of the numbers of keywords of the first i categories
RECURSIVE KeywordProduct(_, _)
KeywordProduct(categories, i) ==
    IF i = 0 THEN 1
    ELSE Len(categories[i].keywords) * KeywordProduct(categories, i - 1)

\* the sum of the fractions of the first i categories, as a multiple of
\* 1 / scale (scale is a multiple of every number of keywords)
RECURSIVE FractionSum(_, _, _, _)
FractionSum(categories, available_info, scale, i) ==
    IF i = 0 THEN 0
    ELSE Present(categories[i].keywords, available_info)
             * (scale \div Len(categories[i].keywords))
         + FractionSum(categories, available_info, scale, i - 1)

\* the tier of the mean of the fractions, in exact arithmetic: the mean is
\* total / (scale * count)
TierOfMean(categories, available_info) ==
    LET count == Len(categories)
        scale == KeywordProduct(categories, count)
        total == FractionSum(categories, available_info, scale, count)
    IN  IF total >= scale * count THEN "complete"
        ELSE IF 10 * total >= 8 * scale * count THEN "sufficient"
        ELSE IF 10 * total >= 5 * scale * count THEN "partial"
        ELSE "minimal"

\* C20: tier selection.  Each category score is the fraction of the
\* category's required keys that are in the available-facts map, the overall
\* score is the unweighted mean of the category scores, and the tier is
\* complete from 1.0, sufficient from 0.8, partial from 0.5 and minimal below,
\* for every facts map.
C20_TierSelection ==
    handlerName # "none" =>
        /\ \A i \in 1..Len(analysis.category_scores) :
              analysis.category_scores[i].score =
                  Double(Present(critical_info_categories[handlerName][i].keywords,
                                 analysis.available_info),
                         Len(critical_info_categories[handlerName][i].keywords))
        /\ analysis.information_quality =
              TierOfMean(critical_info_categories[handlerName],
                         analysis.available_info)

\* with the compensated sum the tier is that of the exact mean
TierUnderCompensatedSum ==
    (handlerName # "none" /\ sumBuiltin = "compensated") =>
        analysis.information_quality =
            TierOfMean(critical_info_categories[handlerName],
                       analysis.available_info)

-----------------------------------------------------------------------------
(* Claims about the critical gaps *)

\* the categories of the analysis in which fewer than three in ten of the
\* keywords are keys of available_info
GapCategories ==
    { i \in 1..Len(analysis.category_scores) :
        10 * Present(critical_info_categories[handlerName][i].keywords,
                     analysis.available_info)
            < 3 * Len(critical_info_categories[handlerName][i].keywords) }

\* the critical gaps are the categories that score below 0.3
GapsBelowThreshold ==
    handlerName # "none" =>
        \A i \in 1..Len(analysis.category_scores) :
            InList(analysis.category_scores[i].category, analysis.critical_gaps)
                <=> i \in GapCategories

\* C21: critical gaps and missing-info tags.  A category is a critical gap
\* exactly when its own score is below 0.3, and the critical gaps map
\* one-to-one to the missing-info tags: each of the four categories that is a
\* critical gap gives exactly one tag and each tag comes from exactly one
\* critical gap.
C21_GapsAndTags ==
    handlerName # "none" =>
        /\ \A i \in 1..Len(analysis.category_scores) :
              InList(analysis.category_scores[i].category, analysis.critical_gaps)
                  <=> i \in GapCategories
        /\ Len(analysis.missing_info) = Len(analysis.critical_gaps)
        /\ \A i, j \in 1..Len(analysis.missing_info) :
              analysis.missing_info[i] = analysis.missing_info[j] => i = j

-----------------------------------------------------------------------------
(* Claims about the gates on attractions *)

\* the classification asked for attractions and the payload handed to the
\* gate exists, reports success and holds at least one result
AttractionsUsable ==
    /\ Requested("attractions")
    /\ externalData.attractions.present
    /\ externalData.attractions.success
    /\ externalData.attractions.total_found > 0

\* C22: attractions gate.  Attractions are surfaced (attractions_relevant is
\* true) if and only if the classification requested attractions (kind
\* attractions or both, needed true) and the payload handed to the gate
\* exists, reports success and contains at least one result.
C22_AttractionsGate ==
    gateStep \in {"attractions_gate", "destination_gate"} =>
        (relevance.attractions_relevant <=> AttractionsUsable)

\* the gate of the attractions handler surfaces attractions exactly then
AttractionsHandlerGate ==
    gateStep = "attractions_gate" =>
        (relevance.attractions_relevant <=> AttractionsUsable)

-----------------------------------------------------------------------------
(* Claims about the table of strategies *)

\* the kind of the table a strategy type of a handler stands for
StrategyKind(type) ==
    IF type \in {"hybrid_with_weather", "hybrid_with_data"}
    THEN "hybrid_with_external"
    ELSE IF type \in {"detailed_packing_list", "detailed_planning"}
    THEN "detailed"
    ELSE type

\* the first row of the table that matches
TableRow(tier, usable, prior_turns) ==
    IF tier = "minimal"
    THEN IF prior_turns <= 4 THEN "question_focused" ELSE "hybrid"
    ELSE IF tier = "partial"
    THEN IF usable THEN "hybrid_with_external" ELSE "hybrid"
    ELSE IF tier = "sufficient" THEN "recommendation_focused"
    ELSE "detailed"

\* at least one kind of external data passed its gate
SomeKindUsable == externalRelevance.use_weather \/ externalRelevance.use_attractions

\* C23: strategy table.  For every tier, every pair of gate verdicts and every
\* history length the type of the selected strategy is that of the first
\* matching row of the table: partial with no usable kind gives hybrid,
\* partial with a usable kind (weather or attractions) gives
\* hybrid_with_external, sufficient gives recommendation_focused and complete
\* gives detailed, whatever the external data and the history length.
C23_StrategyTable ==
    strategyStep = "selected" =>
        StrategyKind(responseStrategy.type) =
            TableRow(infoAnalysis.information_quality, SomeKindUsable,
                     recentLength)

\* the rows of the tiers above minimal
RowsAboveMinimal ==
    (strategyStep = "selected" /\ infoAnalysis.information_quality # "minimal") =>
        StrategyKind(responseStrategy.type) =
            TableRow(infoAnalysis.information_quality, SomeKindUsable,
                     recentLength)

\* the rows of the tiers above minimal, for the packing handler
PackingRowsAboveMinimal ==
    (/\ strategyStep = "selected"
     /\ strategyHandler = "packing_suggestions"
     /\ infoAnalysis.information_quality # "minimal") =>
        StrategyKind(responseStrategy.type) =
            TableRow(infoAnalysis.information_quality, SomeKindUsable,
                     recentLength)

-----------------------------------------------------------------------------
(* Claims about the age of cached payloads *)

\* the age of the payload saved under the data type of the latest read
AgeAtRead == clock - cacheEntry[lastCacheOp.data_type].timestamp

\* C24: expired cache entries are absent.  A payload saved by
\* save_external_data is returned by get_external_data only while its age is
\* within its time to live of 3600 seconds; once the age exceeds it the cache
\* reports absent, so no payload older than that is handed on to a gate.
C24_ExpiredAbsent ==
    lastCacheOp.op = "get" =>
        /\ lastCacheOp.result.present =>
              /\ cacheEntry[lastCacheOp.data_type].present
              /\ lastCacheOp.result = cacheEntry[lastCacheOp.data_type].data
              /\ AgeAtRead <= ttl_seconds
        /\ (cacheEntry[lastCacheOp.data_type].present /\ AgeAtRead > ttl_seconds) =>
              ~lastCacheOp.result.present

\* a weather payload is read back after more than 3600 seconds and reported
\* absent, while the attractions payload saved later is still returned
C24_Witness ==
    /\ lastCacheOp.op = "get"
    /\ lastCacheOp.data_type = "weather_external_data"
    /\ cacheEntry.weather_external_data.present
    /\ AgeAtRead > ttl_seconds
    /\ ~lastCacheOp.result.present
    /\ cacheEntry.attractions_external_data.present
    /\ clock - cacheEntry.attractions_external_data.timestamp < ttl_seconds

-----------------------------------------------------------------------------
(* Claims about the order of the steps of a turn *)

\* the facts of the turn's classification, for the global scope and the scope
\* of the type, are keys of what the scorer counted
TurnFactsCounted ==
    \A sc \in {"global_context", classificationResult.type} :
        LET facts == FactsFor(classificationResult, sc)
        IN  \A i \in 1..Len(facts) :
                HasColon(facts[i])
                    => HasKey(analysis.available_info, lower(KeyOf(facts[i])))

-----------------------------------------------------------------------------
(* Claims about the weight of the pattern matcher *)

\* the largest normalized_score classify_with_patterns can give a type: every
\* keyword found (1 each) and every phrase found (2 each), over their number
LargestScore(query_type) ==
    LET patterns == type_patterns[query_type]
        total_patterns == Len(patterns.keywords) + Len(patterns.phrases)
    IN  ((Len(patterns.keywords) + 2 * Len(patterns.phrases)) * Unit)
            \div total_patterns

\* C26: whenever the generative classifier succeeds the verdict's type is its
\* type and the source is never the pattern matcher, and the weighted
\* confidence of the pattern matcher stays below the weight of the generative
\* classifier even at the largest score a type can get.
C26_PatternsNeverOverride ==
    /\ called # "none" /\ geminiResult.ok
          => /\ finalResult.type = geminiResult.type
             /\ finalResult.primary_source # "patterns"
             /\ PatternConfidence(patternResult) < GEMINI_WEIGHT
    /\ \A query_type \in valid_query_types :
          PatternConfidence([confidence |-> LargestScore(query_type)])
              < GEMINI_WEIGHT

\* the matcher reports more than 1.0 for one type, the generative classifier
\* names another, and the verdict follows the generative classifier
C26_Witness ==
    /\ called = "classify_query"
    /\ geminiResult.ok
    /\ patternResult.confidence > Unit
    /\ geminiResult.type # patternResult.type
    /\ finalResult.type = geminiResult.type
    /\ finalResult.primary_source = "llm"

-----------------------------------------------------------------------------
(* Claims about a turn whose primary classifier failed *)

\* the primary raised, or its output was not JSON, lacked a required field, or
\* named a type or a kind of external data outside the valid ones
PrimaryFailed(answer) == answer.kind \in {"raises", "not_json"} \/ MalformedOutput(answer)

\* the turn is between its classification and its return
InTurn == turnStep \in {"classified", "fetched", "stored"}

\* C27: a turn whose primary classifier failed changes no fact scope: the
\* global scope and the three scopes of the types hold after the turn what
\* they held before it.
C27_FailedTurnKeepsScopes ==
    [][(InTurn /\ PrimaryFailed(geminiResponse)) => store' = store]_vars

\* a turn whose verdict is marked fallback_used changes no fact scope
FallbackTurnKeepsScopes ==
    [][(InTurn /\ classificationResult.fallback_used) => store' = store]_vars

-----------------------------------------------------------------------------
(* Claims about the length of the conversation the selector sees *)

\* every query and every answer of the conversation so far has been saved,
\* the query of this turn included, and no redis command failed in the turn
EverythingSaved ==
    /\ Len(history) = 2 * turnCount - 1
    /\ "store" \notin turnFailures

-----------------------------------------------------------------------------
(* Claims about the cache and the fetchers *)

\* the kinds the classification of the call asked for
RequestedKinds ==
    {k \in {"weather", "attractions"} :
        /\ fetchCall.verdict.external_data_needed
        /\ fetchCall.verdict.external_data_type \in {k, "both"}}

\* the payload of the kind was in the cache, unexpired, when the call began
Unexpired(k) ==
    /\ fetchCall.before[k].present
    /\ fetchCall.at - fetchCall.before[k].set_at < ttl_seconds

-----------------------------------------------------------------------------
(* Claims about the route of a destination turn *)

\* the scorer, the gate and the selector of a handler have not run
NoHandlerStepRan ==
    /\ handlerName = "none"
    /\ analysis = NoAnalysis
    /\ relevance = NoRelevance
    /\ responseStrategy = DefaultStrategy

====
